---- MODULE Spec2Model ----
(***************************************************************************)
(* Script-versus-transcript alignment engine of BadWords                   *)
(* (algorythms.py, CompareEngineV5).  Text is modelled as sequences of     *)
(* one-character strings; script and transcript indices are 0-based as in  *)
(* the source, so that At(seq, k) reads the source's seq[k].               *)
(***************************************************************************)
EXTENDS Integers, Sequences, FiniteSets, TLC

\* ------------------------------------------------------------------------
\* Characters
\* ------------------------------------------------------------------------

LowerLetters ==
  {"a","b","c","d","e","f","g","h","i","j","k","l","m",
   "n","o","p","q","r","s","t","u","v","w","x","y","z"}

Digits == {"0","1","2","3","4","5","6","7","8","9"}

\* str.lower() restricted to ASCII letters: every other character is kept.
UpperToLower ==
  ("A" :> "a") @@ ("B" :> "b") @@ ("C" :> "c") @@ ("D" :> "d") @@ ("E" :> "e") @@
  ("F" :> "f") @@ ("G" :> "g") @@ ("H" :> "h") @@ ("I" :> "i") @@ ("J" :> "j") @@
  ("K" :> "k") @@ ("L" :> "l") @@ ("M" :> "m") @@ ("N" :> "n") @@ ("O" :> "o") @@
  ("P" :> "p") @@ ("Q" :> "q") @@ ("R" :> "r") @@ ("S" :> "s") @@ ("T" :> "t") @@
  ("U" :> "u") @@ ("V" :> "v") @@ ("W" :> "w") @@ ("X" :> "x") @@ ("Y" :> "y") @@
  ("Z" :> "z")

LowerChar(c) == IF c \in DOMAIN UpperToLower THEN UpperToLower[c] ELSE c

Lower(text) == [k \in 1..Len(text) |-> LowerChar(text[k])]

\* The characters str.split() splits on.
Whitespace == {" ", "\t", "\n"}

\* The argument of str.strip in tokenize_v5 and __init__.
EdgePunct == {".", ",", "?", "!", ":", ";", "\"", "'", "(", ")", "[", "]", "{", "}"}

\* The source's seq[k], k counted from 0.
At(seq, k) == seq[k + 1]

Max(a, b) == IF a >= b THEN a ELSE b
Min(a, b) == IF a <= b THEN a ELSE b

\* ------------------------------------------------------------------------
\* 2. Preprocessing and tokenization
\* ------------------------------------------------------------------------

IsAlnum(c) == c \in LowerLetters \/ c \in Digits

\* re.sub(r'[^a-z0-9]', '', text.lower())
super_clean(text) == SelectSeq(Lower(text), IsAlnum)

\* str.strip(chars): drop the characters of chars from both ends.
RECURSIVE LStrip(_, _)
LStrip(t, chars) ==
  IF t # << >> /\ Head(t) \in chars THEN LStrip(Tail(t), chars) ELSE t

RECURSIVE RStrip(_, _)
RStrip(t, chars) ==
  IF t # << >> /\ t[Len(t)] \in chars THEN RStrip(SubSeq(t, 1, Len(t) - 1), chars) ELSE t

Strip(t, chars) == RStrip(LStrip(t, chars), chars)

\* str.split(): the maximal runs of non-whitespace characters, in order.
\* The positions where a run begins.
SplitStarts(text) ==
  {k \in 1..Len(text) :
     text[k] \notin Whitespace /\ (k = 1 \/ text[k - 1] \in Whitespace)}

\* The last position of the run that begins at k.
SplitEnd(text, k) ==
  CHOOSE e \in k..Len(text) :
    /\ \A m \in k..e : text[m] \notin Whitespace
    /\ (e = Len(text) \/ text[e + 1] \in Whitespace)

Split(text) ==
  LET starts == SplitStarts(text)
      nth(n) == CHOOSE k \in starts : Cardinality({s \in starts : s <= k}) = n
  IN  [n \in 1..Cardinality(starts) |-> SubSeq(text, nth(n), SplitEnd(text, nth(n)))]

NonEmpty(t) == t # << >>

tokenize_v5(text) ==
  LET raw_tokens == Split(Lower(text))
      stripped   == [k \in 1..Len(raw_tokens) |-> Strip(raw_tokens[k], EdgePunct)]
  IN  SelectSeq(stripped, NonEmpty)

\* ------------------------------------------------------------------------
\* 3. Fuzzy logic and phonetics
\* ------------------------------------------------------------------------

MetaphoneCode(c) ==
  CASE c \in {"b","f","p","v"}                       -> "1"
    [] c \in {"c","g","j","k","q","s","x","z"}       -> "2"
    [] c \in {"d","t"}                               -> "3"
    [] c = "l"                                       -> "4"
    [] c \in {"m","n"}                               -> "5"
    [] c = "r"                                       -> "6"
    [] OTHER                                         -> c

IsNotVowel(c) == c \notin {"a","e","i","o","u","y"}

\* re.sub(r'(.)\1+', r'\1', s): each run of one repeated character becomes one.
RECURSIVE Collapse(_)
Collapse(s) ==
  IF Len(s) <= 1 THEN s
  ELSE IF s[1] = s[2] THEN Collapse(Tail(s))
       ELSE <<s[1]>> \o Collapse(Tail(s))

simplified_metaphone(word) ==
  IF word = << >> THEN << >>
  ELSE LET s1 == [k \in 1..Len(word) |-> MetaphoneCode(LowerChar(word[k]))]
           s2 == IF Len(s1) > 1
                 THEN <<s1[1]>> \o SelectSeq(Tail(s1), IsNotVowel)
                 ELSE s1
       IN  Collapse(s2)

\* Length of the common run of a[x..] and b[y..] inside a[..ahi), b[..bhi).
RECURSIVE MatchLen(_, _, _, _, _, _)
MatchLen(a, b, x, y, ahi, bhi) ==
  IF x < ahi /\ y < bhi /\ At(a, x) = At(b, y)
  THEN 1 + MatchLen(a, b, x + 1, y + 1, ahi, bhi)
  ELSE 0

\* difflib.SequenceMatcher.find_longest_match without junk: the longest
\* block, of those the one starting earliest in a, of those earliest in b.
\* Returns <<i, j, size>>, size 0 when nothing matches.
find_longest_match(a, b, alo, ahi, blo, bhi) ==
  LET \* the places where a common block begins
      starts == {p \in (alo..(ahi - 1)) \X (blo..(bhi - 1)) :
                   /\ At(a, p[1]) = At(b, p[2])
                   /\ ~(p[1] > alo /\ p[2] > blo /\ At(a, p[1] - 1) = At(b, p[2] - 1))}
      size == [p \in starts |-> MatchLen(a, b, p[1], p[2], ahi, bhi)]
  IN  IF starts = {} THEN <<alo, blo, 0>>
      ELSE LET best == CHOOSE p \in starts :
                         \A q \in starts :
                            \/ size[p] > size[q]
                            \/ /\ size[p] = size[q]
                               /\ \/ p[1] < q[1]
                                  \/ p[1] = q[1] /\ p[2] <= q[2]
           IN  <<best[1], best[2], size[best]>>

\* Sum of the sizes of SequenceMatcher.get_matching_blocks().
RECURSIVE matching_total(_, _, _, _, _, _)
matching_total(a, b, alo, ahi, blo, bhi) ==
  IF alo >= ahi \/ blo >= bhi THEN 0
  ELSE LET m == find_longest_match(a, b, alo, ahi, blo, bhi)
       IN  IF m[3] = 0 THEN 0
           ELSE m[3] + matching_total(a, b, alo, m[1], blo, m[2])
                     + matching_total(a, b, m[1] + m[3], ahi, m[2] + m[3], bhi)

\* calculate_similarity as the exact fraction <<numerator, denominator>>:
\* ratio() = 2.0 * matches / (len(a) + len(b)), and 1.0 when both are empty.
calculate_similarity(s1, s2) ==
  IF Len(s1) + Len(s2) = 0 THEN <<1, 1>>
  ELSE <<2 * matching_total(s1, s2, 0, Len(s1), 0, Len(s2)), Len(s1) + Len(s2)>>

\* Fuzzy thresholds in hundredths.
THRESH_SHORT == 50
THRESH_MID == 65
THRESH_LONG == 75
PHONETIC_FLOOR == 50

\* sim >= pct / 100 for the fraction sim.
SimAtLeast(sim, pct) == 100 * sim[1] >= pct * sim[2]

\* check_fuzzy_match without the phonetic fallback.
check_fuzzy_match_NoPhonetic(s1, s2) ==
  LET c1 == super_clean(s1)
      c2 == super_clean(s2)
  IN  IF c1 = << >> \/ c2 = << >> THEN FALSE
      ELSE LET sim == calculate_similarity(c1, c2)
               length == Max(Len(c1), Len(c2))
               threshold == IF length < 4 THEN THRESH_SHORT
                            ELSE IF length <= 7 THEN THRESH_MID
                            ELSE THRESH_LONG
           IN  SimAtLeast(sim, threshold)

check_fuzzy_match(s1, s2) ==
  LET c1 == super_clean(s1)
      c2 == super_clean(s2)
  IN  IF c1 = << >> \/ c2 = << >> THEN FALSE
      ELSE LET sim == calculate_similarity(c1, c2)
               length == Max(Len(c1), Len(c2))
               threshold == IF length < 4 THEN THRESH_SHORT
                            ELSE IF length <= 7 THEN THRESH_MID
                            ELSE THRESH_LONG
           IN  \/ SimAtLeast(sim, threshold)
               \/ /\ SimAtLeast(sim, PHONETIC_FLOOR)
                  /\ LET ph1 == simplified_metaphone(c1)
                         ph2 == simplified_metaphone(c2)
                     IN  ph1 # << >> /\ ph2 # << >> /\ ph1 = ph2


\* ------------------------------------------------------------------------
\* 4. CompareEngineV5: constants and state
\* ------------------------------------------------------------------------

Tok_a == <<"a">>
Tok_an == <<"a","n">>
Tok_the == <<"t","h","e">>
Tok_in == <<"i","n">>
Tok_on == <<"o","n">>
Tok_at == <<"a","t">>
Tok_to == <<"t","o">>
Tok_of == <<"o","f">>
Tok_i == <<"i">>
Tok_you == <<"y","o","u">>
Tok_he == <<"h","e">>
Tok_she == <<"s","h","e">>
Tok_it == <<"i","t">>
Tok_we == <<"w","e">>
Tok_they == <<"t","h","e","y">>
Tok_is == <<"i","s">>
Tok_are == <<"a","r","e">>
Tok_and == <<"a","n","d">>
Tok_or == <<"o","r">>

STOP_WORDS ==
  {Tok_a, Tok_an, Tok_the, Tok_in, Tok_on, Tok_at, Tok_to, Tok_of, Tok_i, Tok_you,
   Tok_he, Tok_she, Tok_it, Tok_we, Tok_they, Tok_is, Tok_are, Tok_and, Tok_or}

\* get_numeric_sequence_val reads at most this many tokens.
NUMERIC_LIMIT == 10
\* Mutant: the scan reaches one script word further.
DELETION_HORIZON_Five == 4 + 1
\* Deletion lookahead scans script[i+1 .. i+DELETION_HORIZON].
DELETION_HORIZON == 4
\* Retake detection scans script[i-1] down to script[max(0, i-RETAKE_WINDOW)].
RETAKE_WINDOW == 150
\* Retake confirmation reads transcript[j+1 .. j+RETAKE_LOOKAHEAD].
RETAKE_LOOKAHEAD == 3
\* A raw anchor longer than this may be a fuzzy anchor.
ANCHOR_FUZZY_LEN == 3
\* A normalized anchor longer than this is confirmed by an exact match alone.
ANCHOR_EXACT_LEN == 6

VARIABLES
  script_text,             \* input: the script string
  words_in,                \* input: the word records as they were passed in
  words_data,              \* input, annotated in place: the word records
  words_alt,               \* the same run on records that differ only in the
                           \* incoming status and selected values
  script_tokens,           \* self.script_tokens
  trans_tokens,            \* self.trans_tokens: the comparable stream
  trans_indices,           \* self.trans_indices: comparable index -> index in words_data
  i,                       \* script cursor of run()
  j,                       \* transcript cursor of run()
  history_map,             \* self.history_map: script index -> transcript index
  trace_map,               \* self.trace_map: transcript index -> script index
  missing_script_indices,  \* self.missing_script_indices
  written,                 \* indices of words_data whose status run() has written
  pc,                      \* position in run(): "loop", "phase_d", "done"
                           \* ("gui" while the window drives the worker threads)
  gui,                     \* the window: its worker threads and last_analysis_mode
  fz,                      \* two tokens and the results of the similarity
                           \* functions applied to them
  step                     \* the step the last loop iteration committed

vars ==
  <<script_text, words_in, words_data, words_alt, script_tokens, trans_tokens,
    trans_indices, i, j, history_map, trace_map, missing_script_indices, written,
    pc, gui, fz, step>>

s_len == Len(script_tokens)
t_len == Len(trans_tokens)

EmptyMap == [k \in {} |-> 0]

\* Mutant: an existing key keeps its first value.
Put_KeepFirst(map, k, v) ==
  [x \in (DOMAIN map) \cup {k} |-> IF x \in DOMAIN map THEN map[x] ELSE v]

\* dict[k] = v
Put(map, k, v) == [x \in (DOMAIN map) \cup {k} |-> IF x = k THEN v ELSE map[x]]

\* ------------------------------------------------------------------------
\* CompareEngineV5.__init__
\* ------------------------------------------------------------------------

\* A word enters the comparable stream unless it is silence or inaudible
\* or its edge-stripped text is empty.
CleanText(w) == Lower(Strip(w.text, EdgePunct))

IsComparable(w) ==
  /\ ~(w.type = "silence" \/ w.is_inaudible)
  /\ CleanText(w) # << >>

\* The indices, in order, of the words that enter the comparable stream.
InitTransIndices(wd) ==
  SelectSeq([idx \in 1..Len(wd) |-> idx - 1], LAMBDA idx : IsComparable(At(wd, idx)))

InitTransTokens(wd) ==
  LET idxs == InitTransIndices(wd)
  IN  [k \in 1..Len(idxs) |-> CleanText(At(wd, idxs[k]))]

\* ------------------------------------------------------------------------
\* Helpers of run()
\* ------------------------------------------------------------------------

\* The comparable indices a call mark_range(t_start_idx, t_end_idx, _) visits.
MarkedTokens(t_start_idx, t_end_idx) ==
  {k \in t_start_idx..t_end_idx : k < t_len}

MarkedReal(t_start_idx, t_end_idx) ==
  {At(trans_indices, k) : k \in MarkedTokens(t_start_idx, t_end_idx)}

\* Mutant: every record between the first and the last marked word is
\* written, the silence and inaudible records among them included.
mark_range_RealSpan(wd, t_start_idx, t_end_idx, status) ==
  LET real == MarkedReal(t_start_idx, t_end_idx)
  IN  [r \in 1..Len(wd) |->
         IF \E lo \in real, hi \in real : lo <= r - 1 /\ r - 1 <= hi
         THEN [wd[r] EXCEPT !.status = IF status # "normal" THEN status ELSE "null",
                            !.selected = (status # "normal")]
         ELSE wd[r]]

\* Mutant: the record is not reset before the new status is written.
mark_range_NoReset(wd, t_start_idx, t_end_idx, status) ==
  LET real == MarkedReal(t_start_idx, t_end_idx)
  IN  [r \in 1..Len(wd) |->
         IF (r - 1) \in real /\ status # "normal"
         THEN [wd[r] EXCEPT !.status = status, !.selected = TRUE]
         ELSE wd[r]]

\* mark_range: the new words_data.
mark_range(wd, t_start_idx, t_end_idx, status) ==
  LET real == MarkedReal(t_start_idx, t_end_idx)
  IN  [r \in 1..Len(wd) |->
         IF (r - 1) \in real
         THEN [wd[r] EXCEPT !.status = IF status # "normal" THEN status ELSE "null",
                            !.selected = (status # "normal")]
         ELSE wd[r]]

super_compare(s1, s2) == super_clean(s1) = super_clean(s2)

\* Mutant: the correspondence is recorded without looking for context.
add_trace_Always(tm, t_idx, s_idx) == Put(tm, t_idx, s_idx)

\* _add_trace: the new trace_map.
add_trace(tm, t_idx, s_idx) ==
  LET prev_match == (t_idx - 1) \in DOMAIN tm /\ tm[t_idx - 1] = s_idx - 1
      next_match == /\ t_idx + 1 < t_len
                    /\ s_idx + 1 < s_len
                    /\ super_compare(At(script_tokens, s_idx + 1), At(trans_tokens, t_idx + 1))
  IN  IF prev_match \/ next_match THEN Put(tm, t_idx, s_idx) ELSE tm

IsDigit(c) == c \in Digits

has_digit(word) == \E k \in 1..Len(word) : IsDigit(word[k])

RECURSIVE NumericRun(_, _, _)
NumericRun(tokens, k, limit) ==
  IF k >= limit \/ ~has_digit(At(tokens, k)) THEN << << >>, 0 >>
  ELSE LET rest == NumericRun(tokens, k + 1, limit)
       IN  << SelectSeq(At(tokens, k), IsDigit) \o rest[1], 1 + rest[2] >>

\* Mutant: the scan stops after the first token.
get_numeric_sequence_val_one(tokens, start_idx) ==
  NumericRun(tokens, start_idx, Min(Len(tokens), start_idx + 1))

\* Mutant: the scan limit is not capped by the length of the sequence.
numeric_limit_NoMin(tokens, start_idx) == start_idx + NUMERIC_LIMIT

\* limit: the scan reads tokens[start_idx .. limit-1].
numeric_limit(tokens, start_idx) == Min(Len(tokens), start_idx + NUMERIC_LIMIT)

\* Returns <<buffer, count>>.
get_numeric_sequence_val(tokens, start_idx) ==
  NumericRun(tokens, start_idx, numeric_limit(tokens, start_idx))


\* ------------------------------------------------------------------------
\* run(): the conditions of the steps, read at the head of an iteration
\* ------------------------------------------------------------------------

InLoop == pc = "loop" /\ i < s_len /\ j < t_len

s_word == At(script_tokens, i)
t_word == At(trans_tokens, j)

s_run == get_numeric_sequence_val(script_tokens, i)
t_run == get_numeric_sequence_val(trans_tokens, j)

\* KROK 0
NumericCond ==
  /\ has_digit(s_word)
  /\ s_run[1] # << >>
  /\ t_run[1] # << >>
  /\ s_run[1] = t_run[1]

\* KROK 1
ExactCond == super_compare(s_word, t_word)

\* KROK 2
StopWordCond == s_word \in STOP_WORDS /\ t_word \in STOP_WORDS

\* KROK 3
InsertionCond == j + 1 < t_len /\ super_compare(s_word, At(trans_tokens, j + 1))

\* KROK 4
FuzzyCond == check_fuzzy_match(s_word, t_word)

MergeCond ==
  j + 1 < t_len /\ check_fuzzy_match(s_word, t_word \o At(trans_tokens, j + 1))

SplitCond ==
  i + 1 < s_len /\ check_fuzzy_match(s_word \o At(script_tokens, i + 1), t_word)

\* KROK 5a: the offsets whose script token matches transcript[j].
DeletionOffsets ==
  {offset \in 1..DELETION_HORIZON :
     /\ i + offset < s_len
     /\ \/ super_compare(At(script_tokens, i + offset), t_word)
        \/ check_fuzzy_match(At(script_tokens, i + offset), t_word)}

DeletionCond == DeletionOffsets # {}

\* Mutant: the scan keeps the last matching offset instead of the first.
match_offset_Farthest ==
  CHOOSE offset \in DeletionOffsets : \A o \in DeletionOffsets : offset >= o

\* The first offset found by the scan 1, 2, 3, 4.
match_offset == CHOOSE offset \in DeletionOffsets : \A o \in DeletionOffsets : offset <= o

\* KROK 5b
is_anchor_candidate(k) ==
  LET s_candidate == At(script_tokens, k)
  IN  \/ super_compare(s_candidate, t_word)
      \/ Len(s_candidate) > ANCHOR_FUZZY_LEN /\ check_fuzzy_match(s_candidate, t_word)

\* Mutant: an exact anchor is confirmed whatever its length.
confirmed_AnyExact(k) ==
  LET s_candidate == At(script_tokens, k)
  IN  \/ super_compare(s_candidate, t_word)
      \/ /\ k + 1 < s_len
         /\ j + 1 < t_len
         /\ \E lookahead_j \in (j + 1)..(j + RETAKE_LOOKAHEAD) :
              /\ lookahead_j < t_len
              /\ \/ super_compare(At(script_tokens, k + 1), At(trans_tokens, lookahead_j))
                 \/ check_fuzzy_match(At(script_tokens, k + 1), At(trans_tokens, lookahead_j))

confirmed(k) ==
  LET s_candidate == At(script_tokens, k)
  IN  \/ Len(super_clean(s_candidate)) > ANCHOR_EXACT_LEN /\ super_compare(s_candidate, t_word)
      \/ /\ k + 1 < s_len
         /\ j + 1 < t_len
         /\ \E lookahead_j \in (j + 1)..(j + RETAKE_LOOKAHEAD) :
              /\ lookahead_j < t_len
              /\ \/ super_compare(At(script_tokens, k + 1), At(trans_tokens, lookahead_j))
                 \/ check_fuzzy_match(At(script_tokens, k + 1), At(trans_tokens, lookahead_j))

\* Mutant: the scan reaches back to the start of the script.
search_limit_NoWindow == Max(0, i - s_len)

search_limit == Max(0, i - RETAKE_WINDOW)

\* The script indices on which the backward scan would commit.
RetakeAnchors ==
  {k \in search_limit..(i - 1) :
     /\ is_anchor_candidate(k)
     /\ confirmed(k)
     /\ k \in DOMAIN history_map
     /\ history_map[k] < j}

RetakeCond == RetakeAnchors # {}

\* The scan runs from i-1 downwards and stops at the first anchor it commits on.
retake_k == CHOOSE k \in RetakeAnchors : \A m \in RetakeAnchors : k >= m

\* ------------------------------------------------------------------------
\* run(): one action per step of the loop
\* ------------------------------------------------------------------------

\* A call self.mark_range(t_start_idx, t_end_idx, status) of run(): the word
\* list is annotated, and so is its copy with the other incoming statuses.
Mark(t_start_idx, t_end_idx, status) ==
  /\ words_data' = mark_range(words_data, t_start_idx, t_end_idx, status)
  /\ words_alt' = mark_range(words_alt, t_start_idx, t_end_idx, status)
  /\ written' = written \cup MarkedReal(t_start_idx, t_end_idx)

\* What run() never assigns: its inputs and the state of the window.
Inputs_unchanged ==
  UNCHANGED <<script_text, words_in, script_tokens, trans_tokens, trans_indices, gui, fz>>

\* Mutant: only the first transcript token of the run is marked.
NumericGreed_MarksFirst ==
  /\ InLoop
  /\ NumericCond
  /\ LET s_count == s_run[2]
         t_count == t_run[2]
     IN  /\ Mark(j, j, "normal")
         /\ trace_map' = [t \in (DOMAIN trace_map) \cup (j..(j + t_count - 1)) |->
                            IF t \in j..(j + t_count - 1) THEN i ELSE trace_map[t]]
         /\ history_map' = [k \in (DOMAIN history_map) \cup (i..(i + s_count - 1)) |->
                              IF k \in i..(i + s_count - 1)
                              THEN (IF j + (k - i) < j + t_count
                                    THEN j + (k - i)
                                    ELSE j + t_count - 1)
                              ELSE history_map[k]]
         /\ i' = i + s_count
         /\ j' = j + t_count
  /\ step' = "numeric"
  /\ UNCHANGED <<missing_script_indices, pc>>
  /\ Inputs_unchanged

NumericGreed ==
  /\ InLoop
  /\ NumericCond
  /\ LET s_count == s_run[2]
         t_count == t_run[2]
     IN  /\ Mark(j, j + t_count - 1, "normal")
         /\ trace_map' = [t \in (DOMAIN trace_map) \cup (j..(j + t_count - 1)) |->
                            IF t \in j..(j + t_count - 1) THEN i ELSE trace_map[t]]
         /\ history_map' = [k \in (DOMAIN history_map) \cup (i..(i + s_count - 1)) |->
                              IF k \in i..(i + s_count - 1)
                              THEN (IF j + (k - i) < j + t_count
                                    THEN j + (k - i)
                                    ELSE j + t_count - 1)
                              ELSE history_map[k]]
         /\ i' = i + s_count
         /\ j' = j + t_count
  /\ step' = "numeric"
  /\ UNCHANGED <<missing_script_indices, pc>>
  /\ Inputs_unchanged

\* The body shared by KROK 1 and KROK 2.
MatchOne(status) ==
  /\ Mark(j, j, status)
  /\ history_map' = Put(history_map, i, j)
  /\ trace_map' = add_trace(trace_map, j, i)
  /\ i' = i + 1
  /\ j' = j + 1

ExactMatch ==
  /\ InLoop
  /\ ~NumericCond
  /\ ExactCond
  /\ MatchOne("normal")
  /\ step' = "exact"
  /\ UNCHANGED <<missing_script_indices, pc>>
  /\ Inputs_unchanged

StopWordTolerance ==
  /\ InLoop
  /\ ~NumericCond /\ ~ExactCond
  /\ StopWordCond
  /\ MatchOne("normal")
  /\ step' = "stopword"
  /\ UNCHANGED <<missing_script_indices, pc>>
  /\ Inputs_unchanged

\* Mutant: the filler consumes the script token as well.
InsertionLookahead_AdvancesBoth ==
  /\ InLoop
  /\ ~NumericCond /\ ~ExactCond /\ ~StopWordCond
  /\ InsertionCond
  /\ Mark(j, j, "bad")
  /\ j' = j + 1
  /\ i' = i + 1
  /\ step' = "insertion"
  /\ UNCHANGED <<history_map, trace_map, missing_script_indices, pc>>
  /\ Inputs_unchanged

\* Mutant: the insertion lookahead is tried before the stop-word tolerance.
InsertionLookahead_BeforeStopWord ==
  /\ InLoop
  /\ ~NumericCond /\ ~ExactCond
  /\ InsertionCond
  /\ Mark(j, j, "bad")
  /\ j' = j + 1
  /\ step' = "insertion"
  /\ UNCHANGED <<i, history_map, trace_map, missing_script_indices, pc>>
  /\ Inputs_unchanged

InsertionLookahead ==
  /\ InLoop
  /\ ~NumericCond /\ ~ExactCond /\ ~StopWordCond
  /\ InsertionCond
  /\ Mark(j, j, "bad")
  /\ j' = j + 1
  /\ step' = "insertion"
  /\ UNCHANGED <<i, history_map, trace_map, missing_script_indices, pc>>
  /\ Inputs_unchanged

Steps0to3Fail == ~NumericCond /\ ~ExactCond /\ ~StopWordCond /\ ~InsertionCond

FuzzyOneToOne ==
  /\ InLoop
  /\ Steps0to3Fail
  /\ FuzzyCond
  /\ MatchOne("typo")
  /\ step' = "fuzzy"
  /\ UNCHANGED <<missing_script_indices, pc>>
  /\ Inputs_unchanged

FuzzyMerge ==
  /\ InLoop
  /\ Steps0to3Fail /\ ~FuzzyCond
  /\ MergeCond
  /\ Mark(j, j + 1, "typo")
  /\ history_map' = Put(history_map, i, j + 1)
  /\ trace_map' = add_trace(add_trace(trace_map, j, i), j + 1, i)
  /\ i' = i + 1
  /\ j' = j + 2
  /\ step' = "merge"
  /\ UNCHANGED <<missing_script_indices, pc>>
  /\ Inputs_unchanged

FuzzySplit ==
  /\ InLoop
  /\ Steps0to3Fail /\ ~FuzzyCond /\ ~MergeCond
  /\ SplitCond
  /\ Mark(j, j, "typo")
  /\ history_map' = Put(Put(history_map, i, j), i + 1, j)
  /\ trace_map' = add_trace(trace_map, j, i)
  /\ i' = i + 2
  /\ j' = j + 1
  /\ step' = "split"
  /\ UNCHANGED <<missing_script_indices, pc>>
  /\ Inputs_unchanged

Steps0to4Fail == Steps0to3Fail /\ ~FuzzyCond /\ ~MergeCond /\ ~SplitCond

DeletionLookahead ==
  /\ InLoop
  /\ Steps0to4Fail
  /\ DeletionCond
  /\ missing_script_indices' =
       missing_script_indices \o [skipped \in 1..match_offset |-> i + skipped - 1]
  /\ i' = i + match_offset
  /\ step' = "deletion"
  /\ UNCHANGED <<words_data, words_alt, written, j, history_map, trace_map, pc>>
  /\ Inputs_unchanged

\* Mutant: the retake span is marked bad instead of repeat.
Retake_MarksBad ==
  /\ InLoop
  /\ Steps0to4Fail /\ ~DeletionCond
  /\ RetakeCond
  /\ LET k == retake_k
         j_start == history_map[k]
     IN  /\ Mark(j_start, j, "bad")
         /\ i' = k + 1
         /\ history_map' = Put(history_map, k, j)
         /\ trace_map' = add_trace(trace_map, j, k)
         /\ j' = j + 1
  /\ step' = "retake"
  /\ UNCHANGED <<missing_script_indices, pc>>
  /\ Inputs_unchanged

\* Mutant: the retake traces the first word of the span, not the word at
\* the cursor.
Retake_TracesSpanStart ==
  /\ InLoop
  /\ Steps0to4Fail /\ ~DeletionCond
  /\ RetakeCond
  /\ LET k == retake_k
         j_start == history_map[k]
     IN  /\ Mark(j_start, j, "repeat")
         /\ i' = k + 1
         /\ history_map' = Put(history_map, k, j)
         /\ trace_map' = Put(trace_map, j_start, k + 1)
         /\ j' = j + 1
  /\ step' = "retake"
  /\ UNCHANGED <<missing_script_indices, pc>>
  /\ Inputs_unchanged

\* Mutant: the script cursor restarts on the anchor instead of after it.
Retake_OnAnchor ==
  /\ InLoop
  /\ Steps0to4Fail /\ ~DeletionCond
  /\ RetakeCond
  /\ LET k == retake_k
         j_start == history_map[k]
     IN  /\ Mark(j_start, j, "repeat")
         /\ i' = k
         /\ history_map' = Put(history_map, k, j)
         /\ trace_map' = add_trace(trace_map, j, k)
         /\ j' = j + 1
  /\ step' = "retake"
  /\ UNCHANGED <<missing_script_indices, pc>>
  /\ Inputs_unchanged

Retake ==
  /\ InLoop
  /\ Steps0to4Fail /\ ~DeletionCond
  /\ RetakeCond
  /\ LET k == retake_k
         j_start == history_map[k]
     IN  /\ Mark(j_start, j, "repeat")
         /\ i' = k + 1
         /\ history_map' = Put(history_map, k, j)
         /\ trace_map' = add_trace(trace_map, j, k)
         /\ j' = j + 1
  /\ step' = "retake"
  /\ UNCHANGED <<missing_script_indices, pc>>
  /\ Inputs_unchanged

\* Mutant: the fallback does not advance the transcript cursor.
Fallback_NoAdvance ==
  /\ InLoop
  /\ Steps0to4Fail /\ ~DeletionCond /\ ~RetakeCond
  /\ Mark(j, j, "bad")
  /\ step' = "fallback"
  /\ UNCHANGED <<i, j, history_map, trace_map, missing_script_indices, pc>>
  /\ Inputs_unchanged

Fallback ==
  /\ InLoop
  /\ Steps0to4Fail /\ ~DeletionCond /\ ~RetakeCond
  /\ Mark(j, j, "bad")
  /\ j' = j + 1
  /\ step' = "fallback"
  /\ UNCHANGED <<i, history_map, trace_map, missing_script_indices, pc>>
  /\ Inputs_unchanged

\* Mutant: the words past the final transcript cursor are not marked.
Cleanup_SkipTail ==
  /\ pc = "loop"
  /\ ~(i < s_len /\ j < t_len)
  /\ missing_script_indices' =
       missing_script_indices \o [n \in 1..(s_len - i) |-> i + n - 1]
  /\ i' = Max(i, s_len)
  /\ pc' = "phase_d"
  /\ step' = "cleanup"
  /\ UNCHANGED <<words_data, words_alt, written, j, history_map, trace_map>>
  /\ Inputs_unchanged

\* Mutant: the script tokens past the final script cursor are not reported.
Cleanup_NoTailCatch ==
  /\ pc = "loop"
  /\ ~(i < s_len /\ j < t_len)
  /\ IF j < t_len
     THEN /\ Mark(j, t_len - 1, "bad")
     ELSE UNCHANGED <<words_data, words_alt, written>>
  /\ i' = Max(i, s_len)
  /\ pc' = "phase_d"
  /\ step' = "cleanup"
  /\ UNCHANGED <<j, history_map, trace_map, missing_script_indices>>
  /\ Inputs_unchanged

\* The loop condition fails: Cleanup and TAIL CATCH.
Cleanup ==
  /\ pc = "loop"
  /\ ~(i < s_len /\ j < t_len)
  /\ IF j < t_len
     THEN /\ Mark(j, t_len - 1, "bad")
     ELSE UNCHANGED <<words_data, words_alt, written>>
  /\ missing_script_indices' =
       missing_script_indices \o [n \in 1..(s_len - i) |-> i + n - 1]
  /\ i' = Max(i, s_len)
  /\ pc' = "phase_d"
  /\ step' = "cleanup"
  /\ UNCHANGED <<j, history_map, trace_map>>
  /\ Inputs_unchanged

\* ------------------------------------------------------------------------
\* Phase D: smart fragment fill
\* ------------------------------------------------------------------------

\* occurrences[s_idx]
Occurrences(tm, s_idx) == {t \in DOMAIN tm : tm[t] = s_idx}

\* sorted(S): the n-th element is the one with n elements of S up to it.
SortedSeq(S) ==
  [n \in 1..Cardinality(S) |-> CHOOSE x \in S : Cardinality({y \in S : y <= x}) = n]

\* Mutant: every occurrence counts as a group of its own.
Groups_CountOccurrences(times) == Len(times)

\* The number of disjoint groups of a sorted list of transcript indices.
Groups(times) ==
  IF times = << >> THEN 0
  ELSE 1 + Cardinality({k \in 2..Len(times) : times[k] # times[k - 1] + 1})

\* The script indices the loop does not skip: two or more occurrences, in
\* two or more groups.
FloodingIndices(tm, sorted_script_indices) ==
  SelectSeq(sorted_script_indices,
            LAMBDA s_idx : LET times == SortedSeq(Occurrences(tm, s_idx))
                           IN  ~(Len(times) < 2) /\ ~(Groups(times) < 2))

\* Mutant: only the first and the last occurrence are marked, not the words
\* between them.
RECURSIVE FragmentFill_EndsOnly(_, _, _, _)
FragmentFill_EndsOnly(wd, tm, flooding, n) ==
  IF n > Len(flooding) THEN wd
  ELSE LET times == SortedSeq(Occurrences(tm, flooding[n]))
       IN  FragmentFill_EndsOnly(
             mark_range(mark_range(wd, times[1], times[1], "repeat"),
                        times[Len(times)], times[Len(times)], "repeat"),
             tm, flooding, n + 1)

\* The flood fills of the loop, for the script indices flooding[n..].
RECURSIVE FragmentFill(_, _, _, _)
FragmentFill(wd, tm, flooding, n) ==
  IF n > Len(flooding) THEN wd
  ELSE LET times == SortedSeq(Occurrences(tm, flooding[n]))
       IN  FragmentFill(mark_range(wd, times[1], times[Len(times)], "repeat"),
                        tm, flooding, n + 1)

\* The transcript spans Phase D floods.
FloodSpans(tm) ==
  {<<times[1], times[Len(times)]>> :
     times \in {ts \in {SortedSeq(Occurrences(tm, tm[t])) : t \in DOMAIN tm} :
                  Len(ts) >= 2 /\ Groups(ts) >= 2}}

phase_d_smart_fragment_fill(wd, tm) ==
  IF DOMAIN tm = {} THEN wd
  ELSE FragmentFill(wd, tm, FloodingIndices(tm, SortedSeq({tm[t] : t \in DOMAIN tm})), 1)

PhaseD ==
  /\ pc = "phase_d"
  /\ words_data' = phase_d_smart_fragment_fill(words_data, trace_map)
  /\ words_alt' = phase_d_smart_fragment_fill(words_alt, trace_map)
  /\ written' = written \cup
       UNION {MarkedReal(sp[1], sp[2]) : sp \in FloodSpans(trace_map)}
  /\ pc' = "done"
  /\ step' = "phase_d"
  /\ UNCHANGED <<i, j, history_map, trace_map, missing_script_indices>>
  /\ Inputs_unchanged

Next ==
  \/ NumericGreed
  \/ ExactMatch
  \/ StopWordTolerance
  \/ InsertionLookahead
  \/ FuzzyOneToOne
  \/ FuzzyMerge
  \/ FuzzySplit
  \/ DeletionLookahead
  \/ Retake
  \/ Fallback
  \/ Cleanup
  \/ PhaseD

\* ------------------------------------------------------------------------
\* Inputs
\* ------------------------------------------------------------------------

Tok_go == <<"g","o">>
Tok_store == <<"s","t","o","r","e">>
Tok_quick == <<"q","u","i","c","k">>
Tok_brown == <<"b","r","o","w","n">>
Tok_fox == <<"f","o","x">>
Tok_fax == <<"f","a","x">>
Tok_jumps == <<"j","u","m","p","s">>
Tok_umm == <<"u","m","m">>
Tok_alpha == <<"a","l","p","h","a">>
Tok_beta == <<"b","e","t","a">>
Tok_gamma == <<"g","a","m","m","a">>
Tok_delta == <<"d","e","l","t","a">>
Tok_five == <<"f","i","v","e">>
Tok_one == <<"o","n","e">>
Tok_two == <<"t","w","o">>
Tok_three == <<"t","h","r","e","e">>
Tok_four == <<"f","o","u","r">>
Tok_5551234 == <<"5","5","5","1","2","3","4">>
Tok_192 == <<"1","9","2">>
Tok_168 == <<"1","6","8">>
Tok_0 == <<"0">>
Tok_1 == <<"1">>
Tok_2 == <<"2">>
Tok_3 == <<"3">>
Tok_4 == <<"4">>
Tok_ip == <<"1","9","2",".","1","6","8",".","0",".","1">>
Tok_5 == <<"5">>
Tok_5a == <<"5","a">>
Tok_55 == <<"5","5">>
Tok_555 == <<"5","5","5">>
Tok_bad == <<"b","a","d">>
Tok_words == <<"w","o","r","d","s">>
Tok_badwords == <<"b","a","d","w","o","r","d","s">>
Tok_dots == <<".",".",".">>
Tok_it_s == <<"i","t","'","s">>
Tok_dash == <<"-">>
Tok_amp == <<"&">>
Tok_the_spaced == <<" ","t","h","e">>
Tok_silence == <<"[","S","I","L","E","N","C","E","]">>
Tok_inaudible == <<"[","I","N","A","U","D","I","B","L","E","]">>

\* The word records the transcription pipeline hands over (engine.py).
Word(text) ==
  [text |-> text, type |-> "word", is_inaudible |-> FALSE, status |-> "null", selected |-> FALSE]

SilenceWord ==
  [text |-> Tok_silence, type |-> "silence", is_inaudible |-> FALSE,
   status |-> "silence", selected |-> FALSE]

InaudibleWord ==
  [text |-> Tok_inaudible, type |-> "inaudible", is_inaudible |-> TRUE,
   status |-> "inaudible", selected |-> TRUE]

\* The same records with every word on the bad-word list: the pipeline hands
\* those over with status bad, selected.
Flagged(wd) ==
  [r \in 1..Len(wd) |->
     IF wd[r].type = "word"
     THEN [wd[r] EXCEPT !.status = "bad", !.selected = TRUE]
     ELSE wd[r]]

Words(texts) == [k \in 1..Len(texts) |-> Word(texts[k])]

\* A script string: the words separated by single spaces.
RECURSIVE Join(_)
Join(tokens) ==
  IF tokens = << >> THEN << >>
  ELSE IF Len(tokens) = 1 THEN tokens[1]
  ELSE LET half == Len(tokens) \div 2
       IN  Join(SubSeq(tokens, 1, half)) \o <<" ">>
             \o Join(SubSeq(tokens, half + 1, Len(tokens)))

Input(script, words) == [script |-> Join(script), words |-> words]

\* Bounds of the exhaustive families.
MaxScript == 3
MaxTrans == 3
\* Bound on the worker threads the window is let to start.
MaxThreads == 2

\* The window before any analysis was requested.
GuiIdle ==
  [threads |-> [t \in 1..MaxThreads |-> [pc |-> "none", pos |-> 0]],
   last_analysis_mode |-> "none"]

\* The orders in which the similarity functions are applied to the tokens a
\* and b.
Orders == {"ab", "ba", "aa"}

\* No token chosen, no function applied.  A ratio is a fraction
\* <<numerator, denominator>>.
FuzzyIdle ==
  [a |-> << >>, b |-> << >>,
   ratio |-> [o \in Orders |-> <<0, 1>>],
   match |-> [o \in Orders |-> FALSE],
   called |-> {}]

SeqsUpTo(S, n) == UNION {[1..m -> S] : m \in 0..n}

Family(svocab, tvocab) ==
  {Input(sc, wd) : sc \in SeqsUpTo(svocab, MaxScript), wd \in SeqsUpTo(tvocab, MaxTrans)}

\* Named examples.
ScenarioRetake ==
  Input(<<Tok_go, Tok_to, Tok_the, Tok_store>>,
        <<Word(Tok_go), Word(Tok_to), Word(Tok_the), Word(Tok_dots),
          Word(Tok_go), Word(Tok_to), Word(Tok_the), Word(Tok_store)>>)

ScenarioNumberWords ==
  Input(<<Tok_five, Tok_five, Tok_five, Tok_one, Tok_two, Tok_three, Tok_four>>,
        Words(<<Tok_5551234>>))

ScenarioNumberDigits ==
  Input(<<Tok_5, Tok_5, Tok_5, Tok_1, Tok_2, Tok_3, Tok_4>>, Words(<<Tok_5551234>>))

ScenarioInsertion ==
  Input(<<Tok_the, Tok_quick, Tok_brown, Tok_fox, Tok_jumps>>,
        Words(<<Tok_the, Tok_quick, Tok_brown, Tok_umm, Tok_fox, Tok_jumps>>))

ScenarioAddress ==
  Input(<<Tok_192, Tok_168, Tok_0, Tok_1>>, Words(<<Tok_ip>>))

ScenarioSkipThenRetake ==
  Input(<<Tok_alpha, Tok_beta, Tok_gamma, Tok_delta>>,
        Words(<<Tok_alpha, Tok_gamma, Tok_alpha, Tok_beta, Tok_gamma, Tok_delta>>))

ScenarioSkipTwice ==
  Input(<<Tok_alpha, Tok_beta, Tok_gamma, Tok_delta>>,
        Words(<<Tok_alpha, Tok_gamma, Tok_alpha, Tok_gamma, Tok_delta>>))

ScenarioTypo ==
  Input(<<Tok_the, Tok_fox, Tok_jumps>>,
        <<Word(Tok_the), SilenceWord, Word(Tok_fax), InaudibleWord, Word(Tok_jumps)>>)

\* A number spoken once, digit by digit, after a restarted sentence.
ScenarioFragmentOnce ==
  Input(<<Tok_alpha, Tok_go, Tok_555>>,
        Words(<<Tok_alpha, Tok_go, Tok_alpha, Tok_go, Tok_5, Tok_5, Tok_5>>))

\* A number spoken once, digit by digit, inside a sentence that is restarted.
ScenarioFragmentInRetake ==
  Input(<<Tok_alpha, Tok_go, Tok_555, Tok_store>>,
        Words(<<Tok_alpha, Tok_go, Tok_5, Tok_5, Tok_5, Tok_alpha, Tok_go>>))

\* A restarted sentence with a silence and an inaudible gap inside the
\* abandoned first attempt.
ScenarioRetakeWithPause ==
  Input(<<Tok_go, Tok_to, Tok_the, Tok_store>>,
        <<Word(Tok_go), Word(Tok_to), SilenceWord, InaudibleWord,
          Word(Tok_go), Word(Tok_to), Word(Tok_the), Word(Tok_store)>>)

\* The only spoken word is the script's fifth: four script words skipped.
ScenarioSkipFour ==
  Input(<<Tok_alpha, Tok_beta, Tok_gamma, Tok_delta, Tok_store>>, Words(<<Tok_store>>))

\* The only spoken word is the script's sixth: beyond the deletion horizon.
ScenarioSkipFive ==
  Input(<<Tok_alpha, Tok_beta, Tok_gamma, Tok_delta, Tok_go, Tok_store>>,
        Words(<<Tok_store>>))

\* A restarted sentence with a filler word inside the second attempt.
ScenarioRetakeWithFiller ==
  Input(<<Tok_go, Tok_to, Tok_the, Tok_store>>,
        Words(<<Tok_go, Tok_to, Tok_the, Tok_go, Tok_umm, Tok_to, Tok_the, Tok_store>>))

\* A sentence restarted with "it" where the script has "it's".
ScenarioApostropheAnchor ==
  Input(<<Tok_it_s, Tok_alpha, Tok_beta>>,
        Words(<<Tok_it_s, Tok_alpha, Tok_it, Tok_alpha, Tok_beta>>))

\* A sentence whose first word was heard as two words, then restarted.
ScenarioMergeThenRetake ==
  Input(<<Tok_badwords, Tok_go, Tok_store>>,
        Words(<<Tok_bad, Tok_words, Tok_go, Tok_badwords, Tok_go, Tok_store>>))

Repeat(tok, n) == [k \in 1..n |-> tok]

\* A sentence restarted when its first word lies exactly RETAKE_WINDOW script
\* words behind the script cursor.
ScenarioRetakeAtWindowEdge ==
  Input(<<Tok_alpha>> \o Repeat(Tok_go, RETAKE_WINDOW - 1) \o <<Tok_store>>,
        Words(<<Tok_alpha>> \o Repeat(Tok_go, RETAKE_WINDOW - 1) \o <<Tok_alpha, Tok_go>>))

\* The same with one more word in between: the first word is out of reach.
ScenarioRetakePastWindow ==
  Input(<<Tok_alpha>> \o Repeat(Tok_go, RETAKE_WINDOW) \o <<Tok_store>>,
        Words(<<Tok_alpha>> \o Repeat(Tok_go, RETAKE_WINDOW) \o <<Tok_alpha, Tok_go>>))

\* A number dictated digit by digit, longer than the numeric scanner's limit.
ScenarioLongNumber ==
  Input(<<Tok_1, Tok_2, Tok_3, Tok_4, Tok_5, Tok_1, Tok_2, Tok_3, Tok_4, Tok_5, Tok_1, Tok_2>>,
        Words(<<Tok_1, Tok_2, Tok_3, Tok_4, Tok_5, Tok_1, Tok_2, Tok_3, Tok_4, Tok_5,
                Tok_1, Tok_2>>))

\* A number in the script, first spoken as a word and then as digits.
ScenarioNumberSpelled ==
  Input(<<Tok_5, Tok_5, Tok_go>>, Words(<<Tok_five, Tok_5, Tok_5, Tok_go>>))

\* A dash in the script, an ampersand in the transcript: two tokens that
\* survive tokenization and have no letter or digit.
ScenarioSymbols ==
  Input(<<Tok_go, Tok_dash, Tok_store>>, Words(<<Tok_go, Tok_amp, Tok_store>>))

\* A transcript word whose text begins with a space.
ScenarioLeadingSpace ==
  Input(<<Tok_a, Tok_store>>, Words(<<Tok_the_spaced, Tok_store>>))

Scenarios ==
  {ScenarioRetake, ScenarioNumberWords, ScenarioNumberDigits, ScenarioInsertion,
   ScenarioAddress, ScenarioSkipThenRetake, ScenarioSkipTwice, ScenarioTypo,
   ScenarioFragmentOnce, ScenarioFragmentInRetake, ScenarioRetakeWithPause,
   ScenarioSkipFour, ScenarioSkipFive, ScenarioRetakeWithFiller,
   ScenarioRetakeAtWindowEdge, ScenarioRetakePastWindow, ScenarioApostropheAnchor,
   ScenarioMergeThenRetake, ScenarioLongNumber,
   ScenarioNumberSpelled, ScenarioSymbols,
   ScenarioLeadingSpace}

Inputs ==
  Scenarios
  \cup Family({Tok_the, Tok_store}, {Word(Tok_to), Word(Tok_the), Word(Tok_store)})
  \cup Family({Tok_5, Tok_55}, {Word(Tok_5), Word(Tok_5a), Word(Tok_55)})
  \cup Family({Tok_bad, Tok_words}, {Word(Tok_bad), Word(Tok_words), Word(Tok_badwords)})
  \cup Family({Tok_bad, Tok_badwords}, {Word(Tok_bad), Word(Tok_words), Word(Tok_badwords)})
  \cup Family({Tok_go, Tok_store}, {Word(Tok_go), SilenceWord, Word(Tok_dots)})

\* ------------------------------------------------------------------------
\* Specification
\* ------------------------------------------------------------------------

\* The state when run() starts: __init__ has run on one input.
Init ==
  \E input \in Inputs :
    /\ script_text = input.script
    /\ words_in = input.words
    /\ words_data = input.words
    /\ words_alt = Flagged(input.words)
    /\ script_tokens = tokenize_v5(input.script)
    /\ trans_tokens = InitTransTokens(input.words)
    /\ trans_indices = InitTransIndices(input.words)
    /\ i = 0
    /\ j = 0
    /\ history_map = EmptyMap
    /\ trace_map = EmptyMap
    /\ missing_script_indices = << >>
    /\ written = {}
    /\ pc = "loop"
    /\ gui = GuiIdle
    /\ fz = FuzzyIdle
    /\ step = "start"

Spec == Init /\ [][Next]_vars

\* ------------------------------------------------------------------------
\* The window (gui.py): comparison runs on worker threads
\* ------------------------------------------------------------------------

\* The word list on screen when the user starts comparing.
GuiInput == Input(<<Tok_go, Tok_store>>, Words(<<Tok_go, Tok_fax, Tok_store>>))

\* The statuses a run writes.
RunStatuses == {"normal", "bad", "typo", "repeat"}

\* The worker threads that are inside run_comparison_logic.
Running == {t \in 1..MaxThreads : gui.threads[t].pc \in {"started", "engine"}}

\* The Compare button: run_compare_click sets last_analysis_mode and calls
\* start_comparison_thread, which starts a daemon thread on a non-empty
\* script. Neither looks at the threads already running, and the button is
\* never disabled.
run_compare_click ==
  /\ pc = "gui"
  /\ script_text # << >>
  /\ \E t \in 1..MaxThreads :
       /\ gui.threads[t].pc = "none"
       /\ \A u \in 1..(t - 1) : gui.threads[u].pc # "none"
       /\ gui' = [gui EXCEPT !.last_analysis_mode = "compare",
                             !.threads[t] = [pc |-> "started", pos |-> 0]]
  /\ UNCHANGED <<words_data, words_alt, i, j, history_map, trace_map,
                 missing_script_indices, written, pc, step>>
  /\ UNCHANGED <<script_text, words_in, script_tokens, trans_tokens, trans_indices, fz>>

\* run_comparison_logic on thread t calls the engine on self.words_data.
run_comparison_logic ==
  /\ pc = "gui"
  /\ \E t \in 1..MaxThreads :
       /\ gui.threads[t].pc = "started"
       /\ gui' = [gui EXCEPT !.threads[t].pc = "engine"]
  /\ UNCHANGED <<words_data, words_alt, i, j, history_map, trace_map,
                 missing_script_indices, written, pc, step>>
  /\ UNCHANGED <<script_text, words_in, script_tokens, trans_tokens, trans_indices, fz>>

\* The run on thread t writes the status of its next word in place.
run_comparison_analysis ==
  /\ pc = "gui"
  /\ \E t \in 1..MaxThreads, status \in RunStatuses :
       /\ gui.threads[t].pc = "engine"
       /\ gui.threads[t].pos < t_len
       /\ words_data' = mark_range(words_data, gui.threads[t].pos, gui.threads[t].pos, status)
       /\ gui' = [gui EXCEPT !.threads[t].pos = @ + 1]
  /\ UNCHANGED <<words_alt, i, j, history_map, trace_map,
                 missing_script_indices, written, pc, step>>
  /\ UNCHANGED <<script_text, words_in, script_tokens, trans_tokens, trans_indices, fz>>

\* The run on thread t returns; self.words_data = result.
run_comparison_done ==
  /\ pc = "gui"
  /\ \E t \in 1..MaxThreads :
       /\ gui.threads[t].pc = "engine"
       /\ gui.threads[t].pos = t_len
       /\ gui' = [gui EXCEPT !.threads[t].pc = "finished"]
  /\ UNCHANGED <<words_data, words_alt, i, j, history_map, trace_map,
                 missing_script_indices, written, pc, step>>
  /\ UNCHANGED <<script_text, words_in, script_tokens, trans_tokens, trans_indices, fz>>

GuiInit ==
  /\ script_text = GuiInput.script
  /\ words_in = GuiInput.words
  /\ words_data = GuiInput.words
  /\ words_alt = GuiInput.words
  /\ script_tokens = tokenize_v5(GuiInput.script)
  /\ trans_tokens = InitTransTokens(GuiInput.words)
  /\ trans_indices = InitTransIndices(GuiInput.words)
  /\ i = 0
  /\ j = 0
  /\ history_map = EmptyMap
  /\ trace_map = EmptyMap
  /\ missing_script_indices = << >>
  /\ written = {}
  /\ pc = "gui"
  /\ gui = GuiIdle
  /\ fz = FuzzyIdle
  /\ step = "start"

GuiNext ==
  \/ run_compare_click
  \/ run_comparison_logic
  \/ run_comparison_analysis
  \/ run_comparison_done

GuiSpec == GuiInit /\ [][GuiNext]_vars

\* ------------------------------------------------------------------------
\* The similarity functions applied to pairs of tokens
\* ------------------------------------------------------------------------

Tok_tide == <<"t","i","d","e">>
Tok_diet == <<"d","i","e","t">>
Tok_time == <<"t","i","m","e">>
Tok_item == <<"i","t","e","m">>
Tok_stare == <<"s","t","a","r","e">>
Tok_keyboard == <<"k","e","y","b","o","a","r","d">>
Tok_kibord == <<"k","i","b","o","r","d">>

FuzzyTokens ==
  {Tok_fox, Tok_fax, Tok_go, Tok_to, Tok_it, Tok_it_s, Tok_dots,
   Tok_tide, Tok_diet, Tok_time, Tok_item, Tok_store, Tok_stare, Tok_alpha,
   Tok_bad, Tok_words, Tok_badwords, Tok_keyboard, Tok_kibord}

\* The arguments in the given order.
Args(order) ==
  CASE order = "ab" -> <<fz.a, fz.b>>
    [] order = "ba" -> <<fz.b, fz.a>>
    [] order = "aa" -> <<fz.a, fz.a>>

\* calculate_similarity(x, y) is evaluated for the arguments in some order.
call_calculate_similarity ==
  /\ pc = "fuzzy"
  /\ \E order \in Orders :
       /\ <<"ratio", order>> \notin fz.called
       /\ fz' = [fz EXCEPT !.ratio[order] = calculate_similarity(Args(order)[1], Args(order)[2]),
                           !.called = @ \cup {<<"ratio", order>>}]
  /\ UNCHANGED <<script_text, words_in, words_data, words_alt, script_tokens, trans_tokens,
                 trans_indices, i, j, history_map, trace_map, missing_script_indices,
                 written, pc, gui, step>>

\* check_fuzzy_match(x, y) is evaluated for the arguments in some order.
call_check_fuzzy_match ==
  /\ pc = "fuzzy"
  /\ \E order \in Orders :
       /\ <<"match", order>> \notin fz.called
       /\ fz' = [fz EXCEPT !.match[order] = check_fuzzy_match(Args(order)[1], Args(order)[2]),
                           !.called = @ \cup {<<"match", order>>}]
  /\ UNCHANGED <<script_text, words_in, words_data, words_alt, script_tokens, trans_tokens,
                 trans_indices, i, j, history_map, trace_map, missing_script_indices,
                 written, pc, gui, step>>

FuzzyInit ==
  /\ \E a \in FuzzyTokens, b \in FuzzyTokens : fz = [FuzzyIdle EXCEPT !.a = a, !.b = b]
  /\ script_text = << >>
  /\ words_in = << >>
  /\ words_data = << >>
  /\ words_alt = << >>
  /\ script_tokens = << >>
  /\ trans_tokens = << >>
  /\ trans_indices = << >>
  /\ i = 0
  /\ j = 0
  /\ history_map = EmptyMap
  /\ trace_map = EmptyMap
  /\ missing_script_indices = << >>
  /\ written = {}
  /\ pc = "fuzzy"
  /\ gui = GuiIdle
  /\ step = "start"

FuzzyNext ==
  \/ call_calculate_similarity
  \/ call_check_fuzzy_match

FuzzySpec == FuzzyInit /\ [][FuzzyNext]_vars

\* ------------------------------------------------------------------------
\* absorb_inaudible_into_repeats
\* ------------------------------------------------------------------------

\* Mutant: the record right before the run, silence or not.
get_prev_effective_index_Adjacent(wd, start_i) == start_i - 1

\* The nearest record before start_i that is not silence, -1 if none.
get_prev_effective_index(wd, start_i) ==
  LET before == {idx \in 0..(start_i - 1) : At(wd, idx).type # "silence"}
  IN  IF before = {} THEN -1 ELSE CHOOSE idx \in before : \A x \in before : x <= idx

\* The nearest record from start_i on that is not silence, -1 if none.
get_next_effective_index(wd, start_i) ==
  LET after == {idx \in start_i..(Len(wd) - 1) : At(wd, idx).type # "silence"}
  IN  IF after = {} THEN -1 ELSE CHOOSE idx \in after : \A x \in after : idx <= x

\* end_idx: the first record from curr on that is neither inaudible nor
\* silence, len(words_data) if none.
RECURSIVE RunEnd(_, _)
RunEnd(wd, curr) ==
  IF curr < Len(wd) /\ (At(wd, curr).is_inaudible \/ At(wd, curr).type = "silence")
  THEN RunEnd(wd, curr + 1)
  ELSE curr

\* The while loop of absorb_inaudible_into_repeats from index idx on; the
\* list is changed in place.
RECURSIVE AbsorbFrom(_, _)
AbsorbFrom(wd, idx) ==
  IF idx >= Len(wd) THEN wd
  ELSE IF At(wd, idx).type = "silence" THEN AbsorbFrom(wd, idx + 1)
  ELSE IF At(wd, idx).is_inaudible
  THEN LET start_idx == idx
           end_idx == RunEnd(wd, idx)
           left_idx == get_prev_effective_index(wd, start_idx)
           prev_ok == left_idx >= 0 /\ At(wd, left_idx).status = "repeat"
           effective_right == IF end_idx < Len(wd)
                              THEN get_next_effective_index(wd, end_idx)
                              ELSE -1
           next_ok == effective_right # -1 /\ At(wd, effective_right).status = "repeat"
           absorbed == [r \in 1..Len(wd) |->
                          IF (r - 1) \in start_idx..(end_idx - 1) /\ wd[r].is_inaudible
                          THEN [wd[r] EXCEPT !.status = "repeat", !.selected = FALSE]
                          ELSE wd[r]]
       IN  AbsorbFrom(IF prev_ok /\ next_ok THEN absorbed ELSE wd, end_idx)
  ELSE AbsorbFrom(wd, idx + 1)

absorb_inaudible_into_repeats(wd) ==
  IF Len(wd) < 3 THEN wd ELSE AbsorbFrom(wd, 0)

\* The longest list the function is applied to.
MaxAbsorb == 5

\* The records a comparison run hands over: words it has marked normal, bad,
\* typo or repeat, and the silence and inaudible records as the
\* transcription pipeline built them.
AbsorbRecords ==
  {Word(Tok_go),
   [Word(Tok_go) EXCEPT !.status = "bad", !.selected = TRUE],
   [Word(Tok_go) EXCEPT !.status = "repeat", !.selected = TRUE],
   SilenceWord,
   InaudibleWord}

\* engine.py applies the function to the list a run returns; it is applied
\* again whenever an analysis is repeated on the same list.
absorb_call ==
  /\ pc = "absorb"
  /\ step \in {"start", "absorbed"}
  /\ words_data' = absorb_inaudible_into_repeats(words_data)
  /\ step' = IF step = "start" THEN "absorbed" ELSE "absorbed_again"
  /\ UNCHANGED <<script_text, words_in, words_alt, script_tokens, trans_tokens,
                 trans_indices, i, j, history_map, trace_map, missing_script_indices,
                 written, pc, gui, fz>>

AbsorbInit ==
  /\ words_in \in SeqsUpTo(AbsorbRecords, MaxAbsorb)
  /\ words_data = words_in
  /\ words_alt = words_in
  /\ script_text = << >>
  /\ script_tokens = << >>
  /\ trans_tokens = << >>
  /\ trans_indices = << >>
  /\ i = 0
  /\ j = 0
  /\ history_map = EmptyMap
  /\ trace_map = EmptyMap
  /\ missing_script_indices = << >>
  /\ written = {}
  /\ pc = "absorb"
  /\ gui = GuiIdle
  /\ fz = FuzzyIdle
  /\ step = "start"

AbsorbNext == absorb_call

AbsorbSpec == AbsorbInit /\ [][AbsorbNext]_vars

\* ------------------------------------------------------------------------
\* Properties
\* ------------------------------------------------------------------------

Done == pc = "done"

Range(seq) == {seq[k] : k \in 1..Len(seq)}

\* The run was started on this input.
InputIs(input) ==
  /\ script_text = input.script
  /\ Len(words_data) = Len(input.words)
  /\ \A r \in 1..Len(words_data) :
       /\ words_data[r].text = input.words[r].text
       /\ words_data[r].type = input.words[r].type

\* Status of comparable token k in the word list wd.
StatusIn(wd, k) == At(wd, At(trans_indices, k)).status

StatusOf(k) == StatusIn(words_data, k)

StrictlyIncreasing(seq) == \A k \in 2..Len(seq) : seq[k - 1] < seq[k]

\* C1 (P4, retake discrimination): for script "go to the store" and the
\* transcript go to the ... go to the store, when the run has returned the
\* tokens 0-2 are repeat and each of the tokens 3-6 is normal or typo.
C1_RetakeDiscrimination ==
  (Done /\ InputIs(ScenarioRetake)) =>
     /\ \A k \in 0..2 : StatusOf(k) = "repeat"
     /\ \A k \in 3..6 : StatusOf(k) \in {"null", "typo"}

\* C2 as stated (P1, coverage): when the run has returned, every word that is
\* not silence and not inaudible has had its status written.
C2_CoverageAllWords ==
  Done =>
    \A r \in 1..Len(words_data) :
       ~(words_data[r].type = "silence" \/ words_data[r].is_inaudible)
          => (r - 1) \in written

\* C2 amended: when the run has returned, every comparable word (not silence,
\* not inaudible, edge-stripped text non-empty) has had its status written,
\* and it is one of null, bad, typo, repeat.
C2_CoverageComparable ==
  Done =>
    \A r \in 1..Len(words_data) :
       IsComparable(words_data[r]) =>
          /\ (r - 1) \in written
          /\ words_data[r].status \in {"null", "bad", "typo", "repeat"}

\* A finished run over a list with at least two comparable words, one of them
\* past the final cursor of the loop, and a punctuation-only word.
C2_Witness ==
  /\ Done
  /\ t_len >= 2
  /\ j < t_len
  /\ \E r \in 1..Len(words_data) :
       words_data[r].type = "word" /\ ~IsComparable(words_data[r])

\* C3: when the run has returned, every word the run wrote has a status among
\* null, bad, typo, repeat and is selected exactly when its status is bad.
C3_SelectedIffBad ==
  Done =>
    \A r \in 1..Len(words_data) :
       (r - 1) \in written =>
          /\ words_data[r].status \in {"null", "bad", "typo", "repeat"}
          /\ words_data[r].selected <=> (words_data[r].status = "bad")

\* C4 as stated (P8): for script "five five five one two three four" and the
\* single word "5551234" the word ends normal and nothing is missing.
C4_NumberWordsMatch ==
  (Done /\ InputIs(ScenarioNumberWords)) =>
     /\ StatusOf(0) = "null"
     /\ missing_script_indices = << >>

\* C4 amended: the script "five five five one two three four" holds no digit,
\* so numeric greed never commits, the word "5551234" ends bad and the script
\* indices 0..6 are all missing; with the script written in digits,
\* "5 5 5 1 2 3 4", the first iteration is a numeric-greed step that moves the
\* cursors to (7, 1), and the word ends normal with nothing missing.
C4_NumberExample ==
  /\ InputIs(ScenarioNumberWords) =>
       /\ step # "numeric"
       /\ Done => /\ StatusOf(0) = "bad"
                  /\ missing_script_indices = <<0, 1, 2, 3, 4, 5, 6>>
  /\ InputIs(ScenarioNumberDigits) =>
       /\ (pc = "loop" /\ step # "start") => (step = "numeric" /\ i = 7 /\ j = 1)
       /\ Done => /\ StatusOf(0) = "null"
                  /\ missing_script_indices = << >>

C4_Witness ==
  /\ Done
  /\ InputIs(ScenarioNumberWords)
  /\ StatusOf(0) = "bad"
  /\ Len(missing_script_indices) = 7

\* C5 as stated (P2): from one loop iteration to the next the script cursor i
\* never decreases.
C5_ScriptCursorMonotone ==
  [][(pc = "loop" /\ pc' = "loop") => i' >= i]_vars

\* C5 amended: a retake step sets i to k+1 for its anchor k, with
\* max(0, i-150) <= k <= i-1, so i may move backwards there and only there;
\* every other loop iteration leaves i unchanged or increases it.
C5_ScriptCursorBackOnlyInRetake ==
  [][(pc = "loop" /\ pc' = "loop") =>
        IF step' = "retake"
        THEN Max(0, i - RETAKE_WINDOW) + 1 <= i' /\ i' <= i
        ELSE i' >= i]_vars

\* A retake step has just moved the script cursor back: a script index at or
\* after the cursor was matched earlier in the run.
C5_Witness ==
  /\ pc = "loop"
  /\ step = "retake"
  /\ \E m \in DOMAIN history_map : m > i

\* C6 (P6, missing tail): when the loop ends, the script indices from the
\* final i to the last script token are all reported missing; and when the
\* run has returned missing_indices is strictly increasing.
C6_MissingTail ==
  /\ [][(pc = "loop" /\ pc' = "phase_d") =>
          \A k \in i..(s_len - 1) : k \in Range(missing_script_indices')]_vars
  /\ [](Done => StrictlyIncreasing(missing_script_indices))

\* C7: when the run has returned, no script index reported missing has a
\* HistoryMap entry (was matched by a numeric, exact, stop-word or fuzzy step).
C7_MissingNeverMatched ==
  Done => \A k \in Range(missing_script_indices) : k \notin DOMAIN history_map

\* The iterations the loop can still make: j never decreases and is bounded
\* by t_len, and while j stands still i increases and is bounded by s_len.
Variant == (t_len - j) * (s_len + 1) + (s_len - i)

\* C8: run() terminates.  Every loop iteration strictly decreases Variant,
\* which is never negative, so the loop makes finitely many iterations, also
\* where deletion-lookahead and retake steps alternate; when the loop is left
\* a cursor has reached its end, and the tail and Phase D are one pass each.
C8_Terminates ==
  /\ [](0 <= i /\ i <= s_len /\ 0 <= j /\ j <= t_len)
  /\ [][(pc = "loop" /\ pc' = "loop") => (Variant' < Variant /\ Variant' >= 0)]_vars
  /\ [][(pc = "loop" /\ pc' # "loop") => (pc' = "phase_d" /\ (i = s_len \/ j = t_len))]_vars
  /\ [][pc = "phase_d" => pc' = "done"]_vars

\* A finished run in which a deletion-lookahead skip was followed by a retake
\* that moved the script cursor back over the skipped index.
C8_Witness ==
  /\ Done
  /\ \E k \in Range(missing_script_indices) : k \in DOMAIN history_map
  /\ \E r \in 1..Len(words_data) : words_data[r].status = "repeat"

\* The precondition of insertion immunity as C9 states it.
InsertionCase == InLoop /\ ~ExactCond /\ ~StopWordCond /\ InsertionCond

InsertionEffect ==
  /\ StatusIn(words_data', j) = "bad"
  /\ j' = j + 1
  /\ i' = i
  /\ missing_script_indices' = missing_script_indices

InsertionExample ==
  (Done /\ InputIs(ScenarioInsertion)) =>
     /\ \A k \in {0, 1, 2, 4, 5} : StatusOf(k) = "null"
     /\ StatusOf(3) = "bad"
     /\ missing_script_indices = << >>

\* C9 as stated (P7): whenever transcript[j] is neither an exact match of
\* script[i] nor accepted by stop-word tolerance and transcript[j+1] exactly
\* matches script[i], the iteration marks transcript[j] bad, advances only j
\* and reports nothing missing; and the quick-brown-fox example ends with
\* umm bad, the other five words normal and nothing missing.
C9_InsertionImmunity ==
  /\ [][InsertionCase => InsertionEffect]_vars
  /\ []InsertionExample

\* C9 amended: the same, provided numeric greed does not match at (i, j);
\* numeric greed is tried first and consumes both runs when it matches.
C9_InsertionAfterNumeric ==
  /\ [][(InsertionCase /\ ~NumericCond) => InsertionEffect]_vars
  /\ []InsertionExample

\* The insertion step of the example has just marked umm.
C9_Witness ==
  /\ InputIs(ScenarioInsertion)
  /\ step = "insertion"
  /\ j = 4
  /\ i = 3
  /\ StatusOf(3) = "bad"

\* C10 (P3, numeric atomicity): whenever script[i] holds a digit and the two
\* digit strings are equal and non-empty, the iteration marks every transcript
\* token of the run normal and advances i and j by the run lengths; and
\* "192 168 0 1" against "192.168.0.1" is consumed in one step to (4, 1), the
\* word ending normal with nothing missing.
C10_NumericAtomicity ==
  /\ [][(/\ InLoop
         /\ has_digit(s_word)
         /\ s_run[1] # << >>
         /\ s_run[1] = t_run[1])
        => /\ i' = i + s_run[2]
           /\ j' = j + t_run[2]
           /\ \A k \in j..(j + t_run[2] - 1) :
                 /\ StatusIn(words_data', k) = "null"
                 /\ At(trans_indices, k) \in written']_vars
  /\ [](InputIs(ScenarioAddress) =>
          /\ (pc = "loop" /\ step # "start") => (step = "numeric" /\ i = 4 /\ j = 1)
          /\ Done => (StatusOf(0) = "null" /\ missing_script_indices = << >>))

\* The numeric step of the address example has just run.
C10_Witness ==
  /\ InputIs(ScenarioAddress)
  /\ step = "numeric"
  /\ i = 4
  /\ j = 1
  /\ StatusOf(0) = "null"

\* A set of transcript indices that is not one run of consecutive integers.
HasGap(S) == \E a \in S, b \in S : a < b /\ \E c \in (a + 1)..(b - 1) : c \notin S

\* Script index s holds a number whose trace entries are one run of three or
\* more consecutive transcript tokens.
FragmentedOnce(s) ==
  /\ s \in 0..(s_len - 1)
  /\ has_digit(At(script_tokens, s))
  /\ Cardinality(Occurrences(trace_map, s)) >= 3
  /\ ~HasGap(Occurrences(trace_map, s))

\* Phase D floods a span that holds token t.
Flooded(t) == \E sp \in FloodSpans(trace_map) : sp[1] <= t /\ t <= sp[2]

\* Token t lies between the first and last occurrence of another script
\* index whose occurrences form two or more groups.
InsideOtherRetake(s, t) ==
  \E s2 \in {trace_map[x] : x \in DOMAIN trace_map} \ {s} :
    LET O == Occurrences(trace_map, s2)
    IN  HasGap(O) /\ \E a \in O, b \in O : a <= t /\ t <= b

\* C11 (P5, fragmentation immunity) as stated: when the run has returned, no
\* token of a number traced as one run of three or more consecutive tokens
\* lies in a span that Phase D marked repeat.
C11_FragmentationImmunity ==
  Done => \A s \in 0..(s_len - 1) :
            FragmentedOnce(s) => \A t \in Occurrences(trace_map, s) : ~Flooded(t)

\* C11 amended: a numeric-greed step that consumes three or more tokens for
\* a script index without earlier trace entries leaves that index with one
\* contiguous group; Phase D starts no flood on account of such an index and
\* leaves its tokens' status alone unless they lie inside the span of another
\* script index that has two or more groups.
C11_FragmentNotOwnFlood ==
  /\ [][(pc = "loop" /\ step' = "numeric" /\ j' - j >= 3
           /\ Occurrences(trace_map, i) = {})
        => (Occurrences(trace_map', i) = j..(j' - 1)
              /\ ~HasGap(Occurrences(trace_map', i)))]_vars
  /\ [][pc = "phase_d" =>
          \A s \in 0..(s_len - 1) :
            FragmentedOnce(s) =>
              \A t \in Occurrences(trace_map, s) :
                ~InsideOtherRetake(s, t) =>
                   StatusIn(words_data', t) = StatusIn(words_data, t)]_vars

\* The digits 5 5 5 spoken once after a restarted sentence: the restart is
\* flooded, the three digit tokens stay normal.
C11_Witness ==
  /\ Done
  /\ InputIs(ScenarioFragmentOnce)
  /\ FragmentedOnce(2)
  /\ StatusOf(0) = "repeat"
  /\ \A t \in 4..6 : StatusOf(t) = "null"

\* C12 (degenerate empty inputs): with an empty script or no comparable
\* transcript word the loop runs zero iterations; an empty script leaves
\* every comparable word bad and nothing missing; an empty comparable stream
\* leaves every script index missing, in order, and the word list as it was
\* passed in; with both empty the list is unchanged and nothing is missing.
C12_DegenerateInputs ==
  /\ [][(pc = "loop" /\ (s_len = 0 \/ t_len = 0)) => pc' = "phase_d"]_vars
  /\ []((Done /\ s_len = 0) =>
          /\ missing_script_indices = << >>
          /\ written = Range(trans_indices)
          /\ \A k \in 0..(t_len - 1) : StatusOf(k) = "bad")
  /\ []((Done /\ t_len = 0) =>
          /\ missing_script_indices = [n \in 1..s_len |-> n - 1]
          /\ written = {}
          /\ words_data = words_in)

\* A finished run on an empty script and a word list with two or more
\* comparable words.
C12_Witness ==
  /\ Done
  /\ s_len = 0
  /\ t_len >= 2
  /\ \A k \in 0..(t_len - 1) : StatusOf(k) = "bad"

\* A finished run on a non-empty script and a non-empty word list without
\* any comparable word.
C12_WitnessNoTranscript ==
  /\ Done
  /\ t_len = 0
  /\ s_len >= 2
  /\ Len(words_data) >= 1
  /\ Len(missing_script_indices) = s_len

\* The fields of a word record the run may not write.
SameFrame(w, v) ==
  /\ w.text = v.text
  /\ w.type = v.type
  /\ w.is_inaudible = v.is_inaudible

\* C13 (annotation only): in every state of a run the word list has the
\* entries it was passed, in the same order, with text, type and
\* is_inaudible unchanged, and every record of type silence or flagged
\* is_inaudible is exactly as it was passed in (status and selected too) and
\* was never written, also inside a span marked repeat.
C13_AnnotationOnly ==
  /\ Len(words_data) = Len(words_in)
  /\ \A r \in 1..Len(words_data) :
       /\ SameFrame(words_data[r], words_in[r])
       /\ (words_in[r].type = "silence" \/ words_in[r].is_inaudible) =>
            (words_data[r] = words_in[r] /\ (r - 1) \notin written)

\* The restarted sentence with a pause has returned: the words on both sides
\* of the silence and the inaudible gap are repeat, the two records between
\* them are as they came in.
C13_Witness ==
  /\ Done
  /\ InputIs(ScenarioRetakeWithPause)
  /\ words_data[2].status = "repeat"
  /\ words_data[5].status = "repeat"
  /\ words_data[3].status = "silence"
  /\ words_data[4].status = "inaudible"

\* C14 (per-iteration progress): the transcript cursor never decreases, and
\* every loop iteration either advances j by at least 1 or is a
\* deletion-lookahead step that keeps j and advances i by 1 to 4; no
\* iteration leaves both cursors where they were.
C14_IterationProgress ==
  /\ [][j' >= j]_vars
  /\ [][(pc = "loop" /\ pc' = "loop") =>
          /\ \/ j' >= j + 1
             \/ (step' = "deletion" /\ j' = j /\ i' - i \in 1..4)
          /\ <<i', j'>> # <<i, j>>]_vars

\* The deletion lookahead has just skipped four script words.
C14_Witness ==
  /\ InputIs(ScenarioSkipFour)
  /\ pc = "loop"
  /\ step = "deletion"
  /\ i = 4
  /\ j = 0
  /\ missing_script_indices = <<0, 1, 2, 3>>

\* The script indices an iteration at (i, j) may read: script[i], the numeric
\* scan, script[i+1] of the split, the deletion scan, the backward retake
\* scan with its script[k+1], and the forward context of _add_trace.
ScriptReads ==
  {i}
  \cup (IF has_digit(s_word) THEN i..(numeric_limit(script_tokens, i) - 1) ELSE {})
  \cup {i + offset : offset \in {o \in 1..DELETION_HORIZON : i + o < s_len}}
  \cup (search_limit..(i - 1))
  \cup {k + 1 : k \in {m \in search_limit..(i - 1) : m + 1 < s_len}}

\* The transcript indices an iteration at (i, j) may read: transcript[j], the
\* numeric scan, transcript[j+1] of the insertion lookahead, of the merge and
\* of _add_trace, and the retake lookahead.
TransReads ==
  {j}
  \cup (IF has_digit(s_word) THEN j..(numeric_limit(trans_tokens, j) - 1) ELSE {})
  \cup {l \in (j + 1)..(j + RETAKE_LOOKAHEAD) : l < t_len}

\* The spans mark_range may be called with in an iteration at (i, j).
MarkCalls ==
  {<<j, j>>}
  \cup (IF NumericCond THEN {<<j, j + t_run[2] - 1>>} ELSE {})
  \cup (IF j + 1 < t_len THEN {<<j, j + 1>>} ELSE {})
  \cup {<<history_map[k], j>> : k \in RetakeAnchors}

\* C15 (no internal operation can fail): in every state of a run the cursors
\* are within 0..len, every script and transcript index an iteration reads
\* lies inside its sequence, every mark_range call covers comparable indices
\* inside the stream whose records exist in words_data, and the two maps hold
\* only valid indices (they feed the retake spans and the flood spans).
C15_IndicesInRange ==
  /\ 0 <= i /\ i <= s_len
  /\ 0 <= j /\ j <= t_len
  /\ \A k \in 1..t_len : trans_indices[k] \in 0..(Len(words_data) - 1)
  /\ \A s \in DOMAIN history_map :
       s \in 0..(s_len - 1) /\ history_map[s] \in 0..(t_len - 1)
  /\ \A t \in DOMAIN trace_map :
       t \in 0..(t_len - 1) /\ trace_map[t] \in 0..(s_len - 1)
  /\ InLoop =>
       /\ ScriptReads \subseteq 0..(s_len - 1)
       /\ TransReads \subseteq 0..(t_len - 1)
       /\ \A c \in MarkCalls :
            c[1] <= c[2] /\ (c[1]..c[2]) \subseteq 0..(t_len - 1)
  /\ pc = "phase_d" =>
       \A sp \in FloodSpans(trace_map) : (sp[1]..sp[2]) \subseteq 0..(t_len - 1)
  /\ written \subseteq 0..(Len(words_data) - 1)

\* A numeric-greed step has just consumed a run of two or more script tokens
\* that ends at the last token of the script and of the transcript.
C15_Witness ==
  /\ pc = "loop"
  /\ step = "numeric"
  /\ i = s_len
  /\ j = t_len
  /\ s_len >= 2
  /\ has_digit(At(script_tokens, s_len - 1))

C17_ExclusiveOwnership == Cardinality(Running) <= 1

\* The transcript indices whose trace entry this step wrote.
NewTrace ==
  {t \in DOMAIN trace_map' : t \notin DOMAIN trace_map \/ trace_map'[t] # trace_map[t]}

\* TraceMap[t-1] = s-1 at the moment (t, s) is written.
PrevContext(t, s) == (t - 1) \in DOMAIN trace_map' /\ trace_map'[t - 1] = s - 1

\* script[s+1] and transcript[t+1] exist and match exactly.
NextContextExact(t, s) ==
  /\ t + 1 < t_len
  /\ s + 1 < s_len
  /\ super_compare(At(script_tokens, s + 1), At(trans_tokens, t + 1))

\* script[s+1] and transcript[t+1] exist and match exactly or fuzzily.
NextContextAny(t, s) ==
  /\ t + 1 < t_len
  /\ s + 1 < s_len
  /\ \/ super_compare(At(script_tokens, s + 1), At(trans_tokens, t + 1))
     \/ check_fuzzy_match(At(script_tokens, s + 1), At(trans_tokens, t + 1))

\* C18 (TraceMap holds only secured correspondences) as stated: every entry
\* (t -> s) a step writes, a numeric-greed step included, has context when it
\* is written: TraceMap[t-1] = s-1, or script[s+1] matches transcript[t+1].
C18_TraceOnlySecured ==
  [][\A t \in NewTrace :
       PrevContext(t, trace_map'[t]) \/ NextContextAny(t, trace_map'[t])]_vars

\* C18 amended: every entry written by an exact, stop-word, fuzzy or retake
\* step has context (TraceMap[t-1] = s-1, or script[s+1] equals
\* transcript[t+1] after normalization); a numeric-greed step writes an
\* entry t -> i for every transcript token of its run without any test.
C18_TraceSecuredExceptNumeric ==
  [][pc = "loop" =>
       IF step' = "numeric"
       THEN /\ NewTrace \subseteq j..(j' - 1)
            /\ \A t \in j..(j' - 1) : trace_map'[t] = i
       ELSE \A t \in NewTrace :
              PrevContext(t, trace_map'[t]) \/ NextContextExact(t, trace_map'[t])]_vars

\* The address example after its numeric step: the entry 0 -> 0 is in the
\* map although token 0 has neither a predecessor nor a successor.
C18_Witness ==
  /\ InputIs(ScenarioAddress)
  /\ step = "numeric"
  /\ 0 \in DOMAIN trace_map
  /\ trace_map[0] = 0
  /\ t_len = 1

\* TraceMap[t-1] = s-1 before the step.
PrevContextBefore(t, s) == (t - 1) \in DOMAIN trace_map /\ trace_map[t - 1] = s - 1

\* C19 (secured trace rule, forward context): an exact-match or retake step
\* that matches transcript[j] to script index s records (j, s) in TraceMap
\* whenever TraceMap[j-1] = s-1 already holds or script[s+1] and
\* transcript[j+1] exist and match exactly or fuzzily.
C19_ForwardContextFuzzy ==
  [][(pc = "loop" /\ step' \in {"exact", "retake"}) =>
       ((PrevContextBefore(j, i' - 1) \/ NextContextAny(j, i' - 1)) =>
          (j \in DOMAIN trace_map' /\ trace_map'[j] = i' - 1))]_vars

\* The comparable tokens between the first and the last occurrence of a
\* script index whose occurrences form two or more runs.
InFloodSpan(t) ==
  \E s \in {trace_map[x] : x \in DOMAIN trace_map} :
    LET O == Occurrences(trace_map, s)
    IN  HasGap(O) /\ \E a \in O, b \in O : a <= t /\ t <= b

\* C20 (flood fill): Phase D leaves every comparable word between the first
\* and the last occurrence of a script index with two or more groups with
\* status repeat, selected, whatever its status was, and changes no other
\* word.
C20_FloodFill ==
  [][pc = "phase_d" =>
       \A t \in 0..(t_len - 1) :
         IF InFloodSpan(t)
         THEN /\ StatusIn(words_data', t) = "repeat"
              /\ At(words_data', At(trans_indices, t)).selected
         ELSE At(words_data', At(trans_indices, t)) = At(words_data, At(trans_indices, t))]_vars

\* The restarted sentence with a filler has returned: the filler (token 4),
\* marked bad by the main pass and itself in no trace entry, lies between the
\* two occurrences of script index 1 and is repeat.
C20_Witness ==
  /\ Done
  /\ InputIs(ScenarioRetakeWithFiller)
  /\ Occurrences(trace_map, 1) = {1, 5}
  /\ 4 \notin DOMAIN trace_map
  /\ InFloodSpan(4)
  /\ StatusOf(4) = "repeat"

\* The script indices that have a trace entry.
TracedIndices == {trace_map[x] : x \in DOMAIN trace_map}

\* C21 (frame of the fragment fill pass): Phase D changes status/selected
\* only of words between the first and the last occurrence of a script index
\* whose occurrences form two or more groups; when no script index has two
\* groups (single occurrences, single contiguous groups) nothing is written;
\* TraceMap, HistoryMap and missing_indices are left as they were.
C21_FragmentFillFrame ==
  [][pc = "phase_d" =>
       /\ \A r \in 1..Len(words_data) :
            words_data'[r] # words_data[r] =>
               /\ \E t \in 0..(t_len - 1) : At(trans_indices, t) = r - 1 /\ InFloodSpan(t)
               /\ [words_data'[r] EXCEPT !.status = "x", !.selected = FALSE]
                    = [words_data[r] EXCEPT !.status = "x", !.selected = FALSE]
       /\ (\A s \in TracedIndices : ~HasGap(Occurrences(trace_map, s)))
             => words_data' = words_data
       /\ UNCHANGED <<trace_map, history_map, missing_script_indices>>]_vars

\* A finished run in which one script index has several occurrences in one
\* contiguous group, all still normal, and another has two groups whose span
\* is repeat.
C21_Witness ==
  /\ Done
  /\ \E s \in TracedIndices :
       /\ Cardinality(Occurrences(trace_map, s)) >= 2
       /\ ~HasGap(Occurrences(trace_map, s))
       /\ \A t \in Occurrences(trace_map, s) : StatusOf(t) = "null" /\ ~InFloodSpan(t)
  /\ \E s \in TracedIndices :
       /\ HasGap(Occurrences(trace_map, s))
       /\ \A t \in Occurrences(trace_map, s) : StatusOf(t) = "repeat"

\* The first step, in the order of the loop body, whose condition holds at
\* the head of the iteration.
FirstStep ==
  IF NumericCond THEN "numeric"
  ELSE IF ExactCond THEN "exact"
  ELSE IF StopWordCond THEN "stopword"
  ELSE IF InsertionCond THEN "insertion"
  ELSE IF FuzzyCond THEN "fuzzy"
  ELSE IF MergeCond THEN "merge"
  ELSE IF SplitCond THEN "split"
  ELSE IF DeletionCond THEN "deletion"
  ELSE IF RetakeCond THEN "retake"
  ELSE "fallback"

\* What only a step of its kind does to the cursors and to transcript[j].
StepFootprint(kind) ==
  CASE kind = "numeric"   -> i' > i /\ j' > j /\ StatusIn(words_data', j) = "null"
    [] kind = "exact"     -> i' = i + 1 /\ j' = j + 1 /\ StatusIn(words_data', j) = "null"
    [] kind = "stopword"  -> i' = i + 1 /\ j' = j + 1 /\ StatusIn(words_data', j) = "null"
    [] kind = "insertion" -> i' = i /\ j' = j + 1 /\ StatusIn(words_data', j) = "bad"
    [] kind = "fuzzy"     -> i' = i + 1 /\ j' = j + 1 /\ StatusIn(words_data', j) = "typo"
    [] kind = "merge"     -> i' = i + 1 /\ j' = j + 2 /\ StatusIn(words_data', j) = "typo"
    [] kind = "split"     -> i' = i + 2 /\ j' = j + 1 /\ StatusIn(words_data', j) = "typo"
    [] kind = "deletion"  -> i' > i /\ j' = j /\ words_data' = words_data
    [] kind = "retake"    -> i' <= i /\ j' = j + 1 /\ StatusIn(words_data', j) = "repeat"
    [] kind = "fallback"  -> i' = i /\ j' = j + 1 /\ StatusIn(words_data', j) = "bad"

\* C22 (strict priority): every loop iteration commits exactly the first
\* step, in the order numeric, exact, stop-word, insertion, fuzzy 1:1, merge,
\* split, deletion, retake, fallback, whose condition holds, and the cursors
\* and transcript[j] change as that step alone changes them; when script[i]
\* and transcript[j] are both stop words and transcript[j+1] equals script[i],
\* transcript[j] is marked normal and both cursors advance.
C22_StrictPriority ==
  [][(pc = "loop" /\ i < s_len /\ j < t_len) =>
       /\ step' = FirstStep
       /\ StepFootprint(FirstStep)
       /\ (~NumericCond /\ ~ExactCond /\ StopWordCond /\ InsertionCond) =>
             /\ StatusIn(words_data', j) = "null"
             /\ i' = i + 1
             /\ j' = j + 1
             /\ missing_script_indices' = missing_script_indices]_vars

\* The stop-word step has just accepted transcript[j-1] against script[i-1]
\* although the transcript token after it equals script[i-1].
C22_Witness ==
  /\ pc = "loop"
  /\ step = "stopword"
  /\ j < t_len
  /\ At(script_tokens, i - 1) # At(trans_tokens, j - 1)
  /\ super_compare(At(script_tokens, i - 1), At(trans_tokens, j))
  /\ StatusOf(j - 1) = "null"

\* Script index m is a confirmed anchor for transcript[j] whose recorded
\* position lies before j.
EligibleAnchor(m) ==
  /\ is_anchor_candidate(m)
  /\ confirmed(m)
  /\ m \in DOMAIN history_map
  /\ history_map[m] < j

\* C23 (retake commit): a retake step commits on the anchor k = i' - 1 with
\* i - 150 <= k <= i - 1, the largest index of the window that is a confirmed
\* anchor with HistoryMap[k] < j; it marks every comparable token of
\* [old HistoryMap[k], j] repeat and no other, sets i = k + 1 and
\* HistoryMap[k] = j, and advances j by exactly 1.
C23_RetakeCommit ==
  [][(pc = "loop" /\ step' = "retake") =>
       LET k == i' - 1
       IN  /\ 0 <= k
           /\ i - RETAKE_WINDOW <= k
           /\ k <= i - 1
           /\ EligibleAnchor(k)
           /\ \A m \in (k + 1)..(i - 1) : ~EligibleAnchor(m)
           /\ \A t \in 0..(t_len - 1) :
                IF history_map[k] <= t /\ t <= j
                THEN /\ StatusIn(words_data', t) = "repeat"
                     /\ At(words_data', At(trans_indices, t)).selected
                ELSE At(words_data', At(trans_indices, t)) = At(words_data, At(trans_indices, t))
           /\ history_map' = Put(history_map, k, j)
           /\ j' = j + 1
           /\ missing_script_indices' = missing_script_indices]_vars

\* The sentence restarted exactly RETAKE_WINDOW script words after its first
\* word: the retake has just committed on anchor 0 from i = RETAKE_WINDOW.
C23_Witness ==
  /\ InputIs(ScenarioRetakeAtWindowEdge)
  /\ pc = "loop"
  /\ step = "retake"
  /\ i = 1
  /\ j = RETAKE_WINDOW + 1
  /\ history_map[0] = RETAKE_WINDOW
  /\ \A t \in 0..RETAKE_WINDOW : StatusOf(t) = "repeat"

\* Two tokens are equal after normalization.
SameNormalized(a, b) == super_clean(a) = super_clean(b)

\* The confirmation rule as the specification words it: the anchor is longer
\* than 6 after normalization and equals transcript[j], or script[k+1]
\* matches one of transcript[j+1], transcript[j+2], transcript[j+3].
ConfirmedAsSpecified(k) ==
  \/ /\ Len(super_clean(At(script_tokens, k))) > 6
     /\ SameNormalized(At(script_tokens, k), t_word)
  \/ /\ k + 1 < s_len
     /\ \E d \in 1..3 :
          /\ j + d < t_len
          /\ \/ SameNormalized(At(script_tokens, k + 1), At(trans_tokens, j + d))
             \/ check_fuzzy_match(At(script_tokens, k + 1), At(trans_tokens, j + d))

\* Some anchor of the window is confirmed and was recorded before j.
SomeAnchorUsable ==
  \E k \in Max(0, i - 150)..(i - 1) :
    /\ is_anchor_candidate(k)
    /\ ConfirmedAsSpecified(k)
    /\ k \in DOMAIN history_map
    /\ history_map[k] < j

\* C24 (retake guard): a retake step commits only on a confirmed anchor
\* (normalized length > 6 and exact match with transcript[j], or script[k+1]
\* matching one of the next three transcript tokens); when the steps before
\* retake detection have failed and no anchor of the window is confirmed with
\* a HistoryMap entry before j, the iteration changes nothing but what the
\* fallback writes: transcript[j] bad, j advanced by 1, i unchanged.
C24_RetakeGuard ==
  [][(pc = "loop" /\ i < s_len /\ j < t_len) =>
       /\ step' = "retake" => ConfirmedAsSpecified(i' - 1)
       /\ (Steps0to4Fail /\ ~DeletionCond /\ ~SomeAnchorUsable) =>
            /\ step' = "fallback"
            /\ i' = i
            /\ j' = j + 1
            /\ words_data' = mark_range(words_data, j, j, "bad")
            /\ StatusIn(words_data', j) = "bad"
            /\ UNCHANGED <<history_map, trace_map, missing_script_indices>>]_vars

\* The fallback has just marked transcript[j-1] bad although an earlier
\* script token equal to it was recorded before it: the anchor was not
\* confirmed.
C24_Witness ==
  /\ pc = "loop"
  /\ step = "fallback"
  /\ j >= 1
  /\ StatusOf(j - 1) = "bad"
  /\ \E k \in 0..(i - 1) :
       /\ SameNormalized(At(script_tokens, k), At(trans_tokens, j - 1))
       /\ k \in DOMAIN history_map
       /\ history_map[k] < j - 1

\* C25 (retake anchor candidates): a retake step commits on an anchor
\* script[k] that equals transcript[j] after normalization, or whose
\* normalized length (letters and digits only) is greater than 3 and that
\* fuzzy-matches transcript[j]; a script token of normalized length 3 or less
\* is never a fuzzy anchor.
C25_AnchorCandidates ==
  [][(pc = "loop" /\ step' = "retake") =>
       LET s_candidate == At(script_tokens, i' - 1)
       IN  \/ SameNormalized(s_candidate, t_word)
           \/ /\ Len(super_clean(s_candidate)) > 3
              /\ check_fuzzy_match(s_candidate, t_word)]_vars

\* script[i+d] exists and matches transcript[j] exactly or fuzzily.
MatchAhead(d) ==
  /\ i + d < s_len
  /\ \/ SameNormalized(At(script_tokens, i + d), t_word)
     \/ check_fuzzy_match(At(script_tokens, i + d), t_word)

\* C26 (deletion lookahead): when the steps before it have failed and some
\* offset in 1..4 has script[i+offset] matching transcript[j] exactly or
\* fuzzily, the iteration appends i, i+1, ..., i+k-1 in this order to
\* missing_indices for the smallest such offset k, sets i to i+k and leaves
\* j, every word, TraceMap and HistoryMap unchanged; when no offset in 1..4
\* matches (a match at offset 5 or more included) the iteration is not a
\* deletion step and missing_indices is unchanged.
C26_DeletionLookahead ==
  [][(pc = "loop" /\ i < s_len /\ j < t_len /\ Steps0to4Fail) =>
       IF \E d \in 1..4 : MatchAhead(d)
       THEN LET k == CHOOSE d \in 1..4 : MatchAhead(d) /\ \A e \in 1..(d - 1) : ~MatchAhead(e)
            IN  /\ step' = "deletion"
                /\ missing_script_indices' =
                     missing_script_indices \o [n \in 1..k |-> i + n - 1]
                /\ i' = i + k
                /\ j' = j
                /\ UNCHANGED <<words_data, trace_map, history_map>>
       ELSE /\ step' # "deletion"
            /\ missing_script_indices' = missing_script_indices]_vars

\* A deletion step has just skipped to the nearest of two script tokens that
\* both match transcript[j]: exactly the indices before it were reported.
C26_Witness ==
  /\ pc = "loop"
  /\ step = "deletion"
  /\ i >= 1
  /\ j < t_len
  /\ SameNormalized(At(script_tokens, i), t_word)
  /\ \E d \in 1..3 : i + d < s_len /\ SameNormalized(At(script_tokens, i + d), t_word)
  /\ missing_script_indices # << >>
  /\ missing_script_indices[Len(missing_script_indices)] = i - 1

\* The only spoken word is the script's sixth: no deletion step, the word is
\* bad and all six script words are reported missing.
C26_WitnessBeyondHorizon ==
  /\ InputIs(ScenarioSkipFive)
  /\ Done
  /\ StatusOf(0) = "bad"
  /\ missing_script_indices = <<0, 1, 2, 3, 4, 5>>

\* The pair of strings a fuzzy step of the given kind has compared.
FuzzyPair(kind) ==
  CASE kind = "fuzzy" -> <<s_word, t_word>>
    [] kind = "merge" -> <<s_word, t_word \o At(trans_tokens, j + 1)>>
    [] kind = "split" -> <<s_word \o At(script_tokens, i + 1), t_word>>

\* C27 (fuzzy matching only after the exact comparison failed): a step that
\* classifies a word typo (1:1, merge of transcript[j]+transcript[j+1], split
\* of script[i]+script[i+1]) has compared two strings that differ after
\* normalization.
C27_FuzzyOnlyAfterExactFailed ==
  [][(pc = "loop" /\ step' \in {"fuzzy", "merge", "split"}) =>
       ~SameNormalized(FuzzyPair(step')[1], FuzzyPair(step')[2])]_vars

\* Transcript token t is recorded against script index s.
RecordedAgainst(tm, t, s) == t \in DOMAIN tm /\ tm[t] = s

\* C28 (fuzzy resolution order and effects): when the steps before the fuzzy
\* logic have failed, 1:1 is tried before merge and merge before split; 1:1
\* marks transcript[j] typo and advances both cursors by 1; merge (only when
\* j+1 exists) marks transcript[j] and transcript[j+1] typo, records both
\* against script[i] and advances i by 1 and j by 2; split (only when i+1
\* exists) marks transcript[j] typo, sets HistoryMap[i] = HistoryMap[i+1] = j
\* and advances i by 2 and j by 1.
C28_FuzzyEffects ==
  [][(pc = "loop" /\ i < s_len /\ j < t_len /\ Steps0to3Fail) =>
       IF check_fuzzy_match(s_word, t_word)
       THEN /\ step' = "fuzzy"
            /\ StatusIn(words_data', j) = "typo"
            /\ i' = i + 1 /\ j' = j + 1
       ELSE IF j + 1 < t_len /\ check_fuzzy_match(s_word, t_word \o At(trans_tokens, j + 1))
       THEN /\ step' = "merge"
            /\ StatusIn(words_data', j) = "typo"
            /\ StatusIn(words_data', j + 1) = "typo"
            /\ RecordedAgainst(trace_map', j, i)
            /\ RecordedAgainst(trace_map', j + 1, i)
            /\ i' = i + 1 /\ j' = j + 2
       ELSE IF i + 1 < s_len /\ check_fuzzy_match(s_word \o At(script_tokens, i + 1), t_word)
       THEN /\ step' = "split"
            /\ StatusIn(words_data', j) = "typo"
            /\ history_map'[i] = j
            /\ history_map'[i + 1] = j
            /\ i' = i + 2 /\ j' = j + 1
       ELSE step' \notin {"fuzzy", "merge", "split"}]_vars

\* The same with the merge clause left out: what the other two variants and
\* the order do.
C28_FuzzyEffectsButMergeRecord ==
  [][(pc = "loop" /\ i < s_len /\ j < t_len /\ Steps0to3Fail) =>
       IF check_fuzzy_match(s_word, t_word)
       THEN /\ step' = "fuzzy"
            /\ StatusIn(words_data', j) = "typo"
            /\ i' = i + 1 /\ j' = j + 1
       ELSE IF j + 1 < t_len /\ check_fuzzy_match(s_word, t_word \o At(trans_tokens, j + 1))
       THEN /\ step' = "merge"
            /\ StatusIn(words_data', j) = "typo"
            /\ StatusIn(words_data', j + 1) = "typo"
            /\ history_map'[i] = j + 1
            /\ i' = i + 1 /\ j' = j + 2
       ELSE IF i + 1 < s_len /\ check_fuzzy_match(s_word \o At(script_tokens, i + 1), t_word)
       THEN /\ step' = "split"
            /\ StatusIn(words_data', j) = "typo"
            /\ history_map'[i] = j
            /\ history_map'[i + 1] = j
            /\ i' = i + 2 /\ j' = j + 1
       ELSE step' \notin {"fuzzy", "merge", "split"}]_vars

\* The function of the given kind has been applied in the given order.
Called(kind, order) == <<kind, order>> \in fz.called

\* Two fractions are the same number.
SameFraction(p, q) == p[1] * q[2] = q[1] * p[2]

\* C29 (symmetry of the similarity functions): for all tokens a and b,
\* ratio(a, b) = ratio(b, a), ratio(a, a) = 1 and
\* check_fuzzy_match(a, b) = check_fuzzy_match(b, a).
C29_Symmetric ==
  /\ (Called("ratio", "ab") /\ Called("ratio", "ba")) =>
        SameFraction(fz.ratio["ab"], fz.ratio["ba"])
  /\ Called("ratio", "aa") => SameFraction(fz.ratio["aa"], <<1, 1>>)
  /\ (Called("match", "ab") /\ Called("match", "ba")) => fz.match["ab"] = fz.match["ba"]

\* The part of C29 that does hold: ratio(a, a) = 1.
C29_RatioOfSelf == Called("ratio", "aa") => SameFraction(fz.ratio["aa"], <<1, 1>>)

\* The normalized arguments of the application in the given order.
Norm1(order) == super_clean(Args(order)[1])
Norm2(order) == super_clean(Args(order)[2])

\* L, the larger normalized length.
LargerLen(order) == Max(Len(Norm1(order)), Len(Norm2(order)))

\* The ratio of the normalized arguments.
NormRatio(order) == calculate_similarity(Norm1(order), Norm2(order))

\* ratio >= 0.50, ratio >= 0.65, ratio >= 0.75 for the fraction r.
AtLeastHalf(r) == 2 * r[1] >= r[2]
AtLeastMid(r) == 20 * r[1] >= 13 * r[2]
AtLeastLong(r) == 4 * r[1] >= 3 * r[2]

\* ratio >= the threshold that belongs to the length L.
AtLeastThreshold(order) ==
  IF LargerLen(order) < 4 THEN AtLeastHalf(NormRatio(order))
  ELSE IF LargerLen(order) <= 7 THEN AtLeastMid(NormRatio(order))
  ELSE AtLeastLong(NormRatio(order))

\* The two phonetic codes are equal and non-empty.
SamePhoneticCode(order) ==
  /\ simplified_metaphone(Norm1(order)) = simplified_metaphone(Norm2(order))
  /\ simplified_metaphone(Norm1(order)) # << >>

\* C30 (fuzzy-match decision): check_fuzzy_match is false when either
\* normalized input is empty; otherwise it is true exactly when the ratio
\* reaches the threshold of the length class (0.50 for L < 4, 0.65 for
\* 4 <= L <= 7, 0.75 for L > 7), or 0.50 <= ratio < threshold and the two
\* phonetic codes are equal and non-empty; for L < 4 the result is exactly
\* ratio >= 0.50, whatever the phonetic codes are.
C30_FuzzyDecision ==
  \A order \in Orders :
    Called("match", order) =>
      /\ (Norm1(order) = << >> \/ Norm2(order) = << >>) => ~fz.match[order]
      /\ (Norm1(order) # << >> /\ Norm2(order) # << >>) =>
           /\ fz.match[order] <=>
                \/ AtLeastThreshold(order)
                \/ /\ AtLeastHalf(NormRatio(order))
                   /\ ~AtLeastThreshold(order)
                   /\ SamePhoneticCode(order)
           /\ LargerLen(order) < 4 =>
                (fz.match[order] <=> AtLeastHalf(NormRatio(order)))

\* A match decided by the phonetic fallback: the ratio is at least 0.50 and
\* below the threshold, and the predicate has answered true.
C30_Witness ==
  /\ Called("match", "ab")
  /\ fz.match["ab"]
  /\ Norm1("ab") # << >> /\ Norm2("ab") # << >>
  /\ AtLeastHalf(NormRatio("ab"))
  /\ ~AtLeastThreshold("ab")
  /\ SamePhoneticCode("ab")

\* The token contains a digit character.
ContainsDigit(word) == \E k \in DOMAIN word : word[k] \in Digits

\* The digit characters of tokens[start .. start+n-1], in order.
RECURSIVE DigitChars(_, _, _)
DigitChars(tokens, start, n) ==
  IF n = 0 THEN << >>
  ELSE DigitChars(tokens, start, n - 1)
         \o SelectSeq(At(tokens, start + n - 1), LAMBDA c : c \in Digits)

\* The length of the longest run of tokens containing a digit that begins at
\* start, capped at 10 tokens and at the end of the sequence.
LongestNumericPrefix(tokens, start) ==
  LET cap == Min(10, Len(tokens) - start)
  IN  CHOOSE n \in 0..cap :
        /\ \A k \in 0..(n - 1) : ContainsDigit(At(tokens, start + k))
        /\ n = cap \/ ~ContainsDigit(At(tokens, start + n))

\* result is what the scanner is specified to return for tokens and start.
Scanned(tokens, start, result) ==
  /\ result[2] = LongestNumericPrefix(tokens, start)
  /\ result[1] = DigitChars(tokens, start, result[2])
  /\ ~ContainsDigit(At(tokens, start)) => result = << << >>, 0 >>

\* C31 (NumericRunScanner): whenever the loop scans for numbers (the script
\* token at the cursor contains a digit), get_numeric_sequence_val has, for
\* the script at i and for the transcript at j, consumed the longest prefix
\* of tokens containing a digit, capped at 10 tokens and at the end of the
\* sequence, and returned the in-order digit characters of exactly those
\* tokens with their number; it returns ("", 0) when the first token
\* contains no digit.
C31_NumericRunScanner ==
  (InLoop /\ has_digit(s_word)) =>
    /\ Scanned(script_tokens, i, s_run)
    /\ Scanned(trans_tokens, j, t_run)

\* The scan of the transcript stopped at the cap: ten tokens consumed and the
\* eleventh contains a digit as well.
C31_Witness ==
  /\ InLoop /\ has_digit(s_word)
  /\ t_run[2] = 10
  /\ j + 10 < t_len
  /\ ContainsDigit(At(trans_tokens, j + 10))

\* The scan of the transcript returned ("", 0) on a token without a digit
\* and the scan of the script consumed several tokens.
C31_WitnessNoDigit ==
  /\ InLoop /\ has_digit(s_word)
  /\ ~ContainsDigit(t_word)
  /\ t_run = << << >>, 0 >>
  /\ s_run[2] > 1

\* Every HistoryMap key is a script index and every value a transcript index
\* behind the transcript cursor.
HistoryBehindCursor ==
  \A k \in DOMAIN history_map :
    /\ k \in 0..(s_len - 1)
    /\ history_map[k] \in 0..(j - 1)

\* The keys whose value a step has written or changed.
HistoryWritten ==
  {k \in DOMAIN history_map' : k \notin DOMAIN history_map \/ history_map'[k] # history_map[k]}

\* C32 (HistoryMap holds the most recent match): at the start of every
\* iteration each HistoryMap key is a valid script index and each value a
\* transcript index smaller than j; a step never removes a key, every value
\* it writes is a transcript index the step has consumed (j <= value < j'),
\* so an update of an existing key replaces its value by a strictly larger
\* one, and the retake step, which rewrites the key of its anchor, does so.
C32_HistoryMostRecent ==
  [][/\ HistoryBehindCursor
     /\ HistoryBehindCursor'
     /\ DOMAIN history_map \subseteq DOMAIN history_map'
     /\ \A k \in HistoryWritten : history_map'[k] \in j..(j' - 1)
     /\ \A k \in HistoryWritten \cap DOMAIN history_map : history_map'[k] > history_map[k]
     /\ step' = "retake" =>
          /\ (i' - 1) \in DOMAIN history_map
          /\ history_map'[i' - 1] > history_map[i' - 1]]_vars

\* A retake has just moved the entry of its anchor to the word at the
\* cursor, while a later script index still holds an older position.
C32_Witness ==
  /\ pc = "loop" /\ step = "retake"
  /\ (i - 1) \in DOMAIN history_map
  /\ history_map[i - 1] = j - 1
  /\ \E k \in DOMAIN history_map : k > i - 1 /\ history_map[k] < j - 1

\* The comparable words the transcript cursor has passed.
Consumed == {k \in 0..(t_len - 1) : k < j}

\* C33 (status changes of consumed words are one-way): once the transcript
\* cursor has passed a comparable word, a step changes its status only to
\* repeat, and only the retake step or the fragment fill pass does so; a
\* consumed word with status repeat keeps it in every later step.
C33_ConsumedOneWay ==
  [][\A k \in Consumed :
       /\ StatusIn(words_data', k) # StatusIn(words_data, k) =>
            /\ StatusIn(words_data', k) = "repeat"
            /\ step' \in {"retake", "phase_d"}
       /\ StatusIn(words_data, k) = "repeat" => StatusIn(words_data', k) = "repeat"]_vars

\* A retake has just turned a word that had been matched and traced into a
\* repeat, in front of the word that restarted the sentence.
C33_Witness ==
  /\ pc = "loop" /\ step = "retake"
  /\ \E k \in Consumed :
       /\ k < j - 1
       /\ k \in DOMAIN trace_map
       /\ StatusOf(k) = "repeat"
       /\ StatusOf(j - 1) = "repeat"

\* The fragment fill pass has turned a consumed word that carries no trace
\* entry into a repeat.
C33_WitnessFragmentFill ==
  /\ Done
  /\ \E k \in Consumed :
       /\ k \notin DOMAIN trace_map
       /\ StatusOf(k) = "repeat"
       /\ StatusIn(words_alt, k) = "repeat"
       /\ InFloodSpan(k)

\* The script indices that are a HistoryMap key or in missing_indices.
Accounted == DOMAIN history_map \cup Range(missing_script_indices)

\* Every script index below the script cursor is accounted for.
AccountedBelowCursor == \A s \in 0..(i - 1) : s \in Accounted

\* C34 (every script token is accounted for): at the start of every loop
\* iteration each script index below i is a HistoryMap key or in
\* missing_indices, and no step ever takes an index out of either, so each
\* index below the largest value i has reached so far stays accounted for
\* after a retake has moved i back; when run() returns, every script index
\* 0..len(script)-1 is matched or in missing_indices.
C34_ScriptAccounted ==
  [][/\ pc = "loop" => AccountedBelowCursor
     /\ pc' = "loop" => AccountedBelowCursor'
     /\ Accounted \subseteq Accounted'
     /\ pc' = "done" => \A s \in 0..(s_len - 1) : s \in Accounted']_vars

\* The run has returned after a retake moved the script cursor back and the
\* transcript ended early: some indices are matched, some are missing.
C34_Witness ==
  /\ Done
  /\ \E s \in Range(missing_script_indices) : s \notin DOMAIN history_map
  /\ \E t \in 0..(t_len - 1) : StatusOf(t) = "repeat"
  /\ \A s \in 0..(s_len - 1) : s \in Accounted

\* A loop head after a retake: the cursor stands below an index it had
\* already reached.
C34_WitnessCursorBack ==
  /\ InLoop /\ step = "retake"
  /\ \E s \in Accounted : s >= i

\* Every TraceMap key is a transcript index behind the transcript cursor.
TraceBehindCursor == \A t \in DOMAIN trace_map : t \in 0..(j - 1)

\* The transcript indices a step may trace: the token at the cursor, the
\* one after it in a merge, the tokens of the numeric run being consumed.
Traceable ==
  {t \in 0..(t_len - 1) :
     \/ t = j
     \/ step' = "merge" /\ t = j + 1
     \/ step' = "numeric" /\ t \in j..(j' - 1)}

\* C35 (one TraceMap entry per transcript index): a step writes entries only
\* for the token at the cursor (or j+1 in a merge, or the tokens of the
\* numeric run it consumes); an entry once written is never overwritten or
\* removed; and all TraceMap keys are smaller than j at the start of every
\* iteration.
C35_TraceWrittenOnce ==
  [][/\ TraceBehindCursor
     /\ TraceBehindCursor'
     /\ \A t \in DOMAIN trace_map :
          t \in DOMAIN trace_map' /\ trace_map'[t] = trace_map[t]
     /\ \A t \in DOMAIN trace_map' \ DOMAIN trace_map :
          t \in Traceable /\ t < j']_vars

\* A retake has just traced the word that restarted the sentence; the
\* entries of the first take, which trace the same script words, are still
\* there.
C35_Witness ==
  /\ pc = "loop" /\ step = "retake"
  /\ (j - 1) \in DOMAIN trace_map
  /\ \E t \in DOMAIN trace_map : t < j - 1 /\ trace_map[t] >= trace_map[j - 1]

\* A merge has just traced the second of the two transcript tokens it
\* consumed.
C35_WitnessMerge ==
  /\ pc = "loop" /\ step = "merge"
  /\ (j - 1) \in DOMAIN trace_map

\* The record is neither silence nor inaudible and its text has a character
\* that is not edge punctuation.
EntersStream(w) ==
  /\ w.type # "silence"
  /\ ~w.is_inaudible
  /\ \E c \in DOMAIN w.text : w.text[c] \notin EdgePunct

\* The comparable tokens a step writes, from the cursors before and after.
StepSpan ==
  CASE step' \in {"exact", "stopword", "insertion", "fuzzy", "split", "fallback"} -> {j}
    [] step' = "numeric" -> j..(j' - 1)
    [] step' = "merge" -> {j, j + 1}
    [] step' = "retake" -> history_map[i' - 1]..j
    [] step' = "cleanup" -> j..(t_len - 1)
    [] step' = "phase_d" -> {t \in 0..(t_len - 1) : InFloodSpan(t)}
    [] OTHER -> {}

\* The status a step writes.
StepStatus ==
  CASE step' \in {"exact", "stopword", "numeric"} -> "null"
    [] step' \in {"insertion", "fallback", "cleanup"} -> "bad"
    [] step' \in {"fuzzy", "merge", "split"} -> "typo"
    [] OTHER -> "repeat"

\* C36 (status writes land on the right word): the comparable stream is, in
\* original order, exactly the words that are neither silence nor inaudible
\* and whose edge-stripped text is non-empty; trans_indices is strictly
\* increasing; and a step that writes the comparable tokens a..b gives the
\* records words_data[trans_indices[k]], a <= k <= b, its status and leaves
\* every other record, the silence and inaudible records in between
\* included, as it was.
C36_WritesLandOnWord ==
  [][/\ StrictlyIncreasing(trans_indices)
     /\ Range(trans_indices) =
          {r - 1 : r \in {x \in 1..Len(words_data) : EntersStream(words_data[x])}}
     /\ \A k \in 0..(t_len - 1) :
          At(trans_tokens, k) = Lower(Strip(At(words_data, At(trans_indices, k)).text, EdgePunct))
     /\ \A real \in {{At(trans_indices, k) : k \in StepSpan}} :
          \A r \in 1..Len(words_data) :
            IF (r - 1) \in real
            THEN /\ words_data'[r] = [words_data[r] EXCEPT !.status = StepStatus,
                                                            !.selected = (StepStatus # "null")]
                 /\ (r - 1) \in written'
            ELSE /\ words_data'[r] = words_data[r]
                 /\ (r - 1) \in written' <=> (r - 1) \in written]_vars

\* A retake has just written a span that runs across a silence record: the
\* comparable words on both sides are repeats, the silence record is as it
\* came in.
C36_Witness ==
  /\ pc = "loop" /\ step = "retake"
  /\ \E r \in 1..Len(words_data), a \in 0..(j - 1), b \in 0..(j - 1) :
       /\ words_data[r].type = "silence"
       /\ words_data[r] = words_in[r]
       /\ (r - 1) \notin written
       /\ At(trans_indices, a) < r - 1 /\ r - 1 < At(trans_indices, b)
       /\ StatusOf(a) = "repeat" /\ StatusOf(b) = "repeat"

\* The record is a word proper: neither silence nor flagged inaudible.
IsSpoken(w) == w.type # "silence" /\ ~w.is_inaudible

\* The record at r (1-based) lies in a run of inaudible and silence records
\* whose nearest spoken neighbours on both sides exist and are repeats.
BetweenRepeats(wd, r) ==
  /\ \E p \in 1..(r - 1) :
       /\ IsSpoken(wd[p]) /\ wd[p].status = "repeat"
       /\ \A x \in (p + 1)..(r - 1) : ~IsSpoken(wd[x])
  /\ \E q \in (r + 1)..Len(wd) :
       /\ IsSpoken(wd[q]) /\ wd[q].status = "repeat"
       /\ \A x \in (r + 1)..(q - 1) : ~IsSpoken(wd[x])

\* What the function is specified to return for the list wd.
AbsorbedAsSpecified(wd) ==
  [r \in 1..Len(wd) |->
     IF Len(wd) >= 3 /\ wd[r].is_inaudible /\ BetweenRepeats(wd, r)
     THEN [wd[r] EXCEPT !.status = "repeat", !.selected = FALSE]
     ELSE wd[r]]

\* C37 (absorb_inaudible_into_repeats): the function changes only records
\* flagged is_inaudible: the inaudible records of a run of inaudible and
\* silence records get status repeat, selected false, exactly when the
\* nearest non-silence records before and after the run both have status
\* repeat; silence records, all other words, the order of the list and lists
\* of fewer than 3 records are unchanged; and a second application changes
\* nothing.
C37_AbsorbInaudible ==
  [][/\ words_data' = AbsorbedAsSpecified(words_data)
     /\ Len(words_data') = Len(words_data)
     /\ \A r \in 1..Len(words_data) :
          /\ ~words_data[r].is_inaudible => words_data'[r] = words_data[r]
          /\ [words_data'[r] EXCEPT !.status = "x", !.selected = FALSE]
               = [words_data[r] EXCEPT !.status = "x", !.selected = FALSE]
     /\ Len(words_data) < 3 => words_data' = words_data
     /\ step = "absorbed" => words_data' = words_data]_vars

\* The function has been applied twice to a list in which two inaudible
\* records with a silence between them stand between two repeats: both are
\* repeats now, the silence is as it was.
C37_Witness ==
  /\ pc = "absorb" /\ step = "absorbed_again"
  /\ \E r \in 2..(Len(words_in) - 1) :
       /\ words_in[r].type = "silence"
       /\ words_data[r] = words_in[r]
       /\ words_in[r - 1].is_inaudible /\ words_in[r - 1].status = "inaudible"
       /\ words_in[r + 1].is_inaudible
       /\ words_data[r - 1].status = "repeat" /\ ~words_data[r - 1].selected
       /\ words_data[r + 1].status = "repeat" /\ ~words_data[r + 1].selected

\* An inaudible record with a repeat on one side only is left as it was.
C37_WitnessOneSide ==
  /\ pc = "absorb" /\ step = "absorbed"
  /\ Len(words_data) >= 3
  /\ \E r \in 2..(Len(words_in) - 1) :
       /\ words_in[r].is_inaudible
       /\ words_in[r - 1].status = "repeat"
       /\ words_in[r + 1].status = "bad"
       /\ words_data[r] = words_in[r]

\* The token has a letter or a digit: its normalized form is not empty.
HasNormalForm(tok) == \E c \in DOMAIN tok : tok[c] \in LowerLetters \cup Digits

\* C38 (an exact match pairs only tokens with a non-empty normalized form):
\* the exact-match step never pairs a script token and a transcript token
\* of which one normalizes to the empty string, and neither do the exact
\* comparisons of the insertion lookahead (script[i] with transcript[j+1]),
\* of the deletion lookahead and of the retake anchoring (a script token
\* with transcript[j]).
C38_ExactNeedsNormalForm ==
  [][/\ step' = "exact" => HasNormalForm(s_word) /\ HasNormalForm(t_word)
     /\ step' = "insertion" => HasNormalForm(s_word) /\ HasNormalForm(At(trans_tokens, j + 1))
     /\ step' = "deletion" => HasNormalForm(At(script_tokens, i')) /\ HasNormalForm(t_word)
     /\ step' = "retake" => HasNormalForm(At(script_tokens, i' - 1)) /\ HasNormalForm(t_word)]_vars

\* The text of the record behind comparable token k.
TextOf(k) == At(words_data, At(trans_indices, k)).text

\* C39 (transcript words are tokenized like script text): for every
\* transcript word whose text tokenize_v5 turns into a single token, the
\* comparable token the engine builds for the word is that token, so both
\* sides agree on stop-word membership and on digit detection.
C39_TokenizedAlike ==
  \A k \in 0..(t_len - 1) :
    Len(tokenize_v5(TextOf(k))) = 1 =>
      /\ At(trans_tokens, k) = tokenize_v5(TextOf(k))[1]
      /\ At(trans_tokens, k) \in STOP_WORDS <=> tokenize_v5(TextOf(k))[1] \in STOP_WORDS
      /\ has_digit(At(trans_tokens, k)) <=> has_digit(tokenize_v5(TextOf(k))[1])

\* The part of C39 that holds: a text without whitespace gives the same
\* token on both sides.
C39_TokenizedAlikeNoWhitespace ==
  \A k \in 0..(t_len - 1) :
    (Len(tokenize_v5(TextOf(k))) = 1 /\ \A c \in DOMAIN TextOf(k) : TextOf(k)[c] \notin Whitespace) =>
      At(trans_tokens, k) = tokenize_v5(TextOf(k))[1]
====
